---------------------------- MODULE Spec2Model ----------------------------
(* Verification model of the Bot Bu chat backend:                         *)
(*   - the global rate/throttle guard      (src/lib/rateLimitTracker.js)   *)
(*   - the tiered chat endpoint POST       (unnamed/part_002, part_003)    *)
(*   - the usage endpoint GET              (app/api/chat-rag/route.js:712) *)
(*   - the RAG chat endpoint POST + cache  (app/api/chat-rag/route.js:38)  *)
(* Time is a discrete clock `now` (one tick = one clock reading of        *)
(* Date.now()).  The durations of the program (1000 ms, 60000 ms, a day,  *)
(* the cache TTL) and its quotas are scaled down so that every boundary   *)
(* is crossed inside the explored horizon; the arithmetic on them is the  *)
(* arithmetic of the source.                                              *)
EXTENDS FiniteSets, Integers, Naturals, Sequences, TLC

---------------------------------------------------------------------------
(* Scaling of the clock and of the quotas.                                 *)

\* ticks per second (the source counts milliseconds: 1000 per second)
MsPerSec == 2
\* seconds per minute (60 in the source)
SecPerMin == 3
\* minutes per wall-clock day (1440 in the source)
MinPerDay == 2
\* LIMITS.RPM, requests per minute (1000 in the source)
RPM == 2
\* LIMITS.RPD, requests per day (10000 in the source)
RPD == 3
\* last clock value explored
MaxTime == 12
\* number of request slots of the tiered endpoint that may be in flight
NumReq == 1

\* 60000 ms
MinuteLen == SecPerMin * MsPerSec
\* one wall-clock day in ticks
DayLen == MinPerDay * MinuteLen
\* LIMITS.MIN_REQUEST_INTERVAL: 1000 ms, i.e. one second
MIN_REQUEST_INTERVAL == 1 * MsPerSec
\* the clock value at module load (Date.now() is far from the epoch)
StartTime == MIN_REQUEST_INTERVAL

\* Math.floor(now / 60000)
MinuteOf(t) == t \div MinuteLen
\* new Date().toDateString(): the wall-clock day of t
DayOf(t) == t \div DayLen
\* Math.ceil(x / 1000) for x >= 0
CeilSec(x) == (x + MsPerSec - 1) \div MsPerSec

Req == 1..NumReq
None == "none"
\* null / no file, and a present value v, for the values that hold a record
Null == <<>>
Some(v) == <<v>>

VARIABLES
    now,            \* Date.now()
    state,          \* rateLimitTracker.js: let state
    stateFile,      \* contents of STATE_FILE, Null when the file does not exist
    inMemoryState,  \* rateLimitTracker.js: let inMemoryState
    fsUp,           \* whether writeFileSync currently succeeds
    req,            \* tiered endpoint: one record per request slot
    lastCheck,      \* the canMakeRequest / getUsageStats call of the last step
    accepted,       \* history: times of the requests recorded by the endpoint
    lastAccepted,   \* history: time of the last accepted request, -1 if none
    rag,            \* RAG endpoint: one record per request slot
    cache,          \* chat-rag/route.js: const cache = new Map()
    sends,          \* ChatGPTInterface.jsx: one record per handleSendMessage run
    ui,             \* ChatGPTInterface.jsx: isLoading and abortController
    router,         \* apiRouter.js: ragFailures and lastRagFailure
    retry,          \* chat-rag/route.js: one run of retryWithBackoff
    call            \* one call of a function of vectorStore.js or of the
                    \* query expansion: its arguments and its result

vars == <<now, state, stateFile, inMemoryState, fsUp, req, lastCheck,
          accepted, lastAccepted, rag, cache, sends, ui, router, retry, call>>

clientVars == <<sends, ui, router>>

---------------------------------------------------------------------------
(* Rate/throttle guard: src/lib/rateLimitTracker.js                        *)

\* No function call is followed.
NoCall == [fn |-> None]

createDefaultState(t) ==
    [ requestsToday      |-> 0,
      requestsThisMinute |-> 0,
      currentDay         |-> DayOf(t),
      currentMinute      |-> MinuteOf(t),
      lastRequestTime    |-> 0,
      requestTimestamps  |-> <<>>,
      totalRequests      |-> 0 ]

\* The persistence pair the guard works on: the file and the in-memory copy.
Disk(f, m) == [file |-> f, mem |-> m]

\* saveState trying the file again at every call
saveStateRetrying(d, s, ok) ==
    IF ok THEN [d EXCEPT !.file = Some(s)]
    ELSE [d EXCEPT !.mem = Some(s)]

\* saveState(state): d is the persistence pair, ok whether the write succeeds.
\* (After module load nothing reads the content of inMemoryState, so the model
\* keeps there the value of the last save.)
saveState(d, s, ok) ==
    IF d.mem # Null THEN [d EXCEPT !.mem = Some(s)]
    ELSE IF ok THEN [d EXCEPT !.file = Some(s)]
    ELSE [d EXCEPT !.mem = Some(s)]

\* state.requestTimestamps.filter(ts => ts > oneMinuteAgo)
PruneTimestamps(ts, t) == SelectSeq(ts, LAMBDA x : x > t - MinuteLen)

\* canMakeRequest lines 102-107: daily reset
ResetDay(s, t) ==
    IF s.currentDay # DayOf(t)
    THEN [s EXCEPT !.requestsToday = 0, !.currentDay = DayOf(t)]
    ELSE s

\* canMakeRequest lines 109-115: minute reset
ResetMinute(s, t) ==
    IF s.currentMinute # MinuteOf(t)
    THEN [s EXCEPT !.requestsThisMinute = 0,
                   !.currentMinute = MinuteOf(t),
                   !.requestTimestamps = <<>>]
    ELSE s

\* canMakeRequest lines 117-120: sliding window
SlideWindow(s, t) ==
    LET ts == PruneTimestamps(s.requestTimestamps, t)
    IN  [s EXCEPT !.requestTimestamps = ts, !.requestsThisMinute = Len(ts)]

\* Verdict with the seconds to the next minute rounded down (59 - ... for
\* 60 - ...)
VerdictShortHint(s, t) ==
    IF s.requestsToday >= RPD
    THEN [allowed |-> FALSE, reason |-> "daily_limit_exceeded",
          retryAfter |-> "tomorrow", retrySeconds |-> 0]
    ELSE IF s.requestsThisMinute >= RPM
    THEN [allowed |-> FALSE, reason |-> "minute_limit_exceeded",
          retryAfter |-> "seconds",
          retrySeconds |-> SecPerMin - 1 - ((t % MinuteLen) \div MsPerSec)]
    ELSE [allowed |-> TRUE, reason |-> None, retryAfter |-> None,
          retrySeconds |-> 0]

\* Verdict with the daily comparison off by one (> for >=)
VerdictOffByOne(s, t) ==
    IF s.requestsToday > RPD
    THEN [allowed |-> FALSE, reason |-> "daily_limit_exceeded",
          retryAfter |-> "tomorrow", retrySeconds |-> 0]
    ELSE IF s.requestsThisMinute >= RPM
    THEN [allowed |-> FALSE, reason |-> "minute_limit_exceeded",
          retryAfter |-> "seconds",
          retrySeconds |-> SecPerMin - ((t % MinuteLen) \div MsPerSec)]
    ELSE [allowed |-> TRUE, reason |-> None, retryAfter |-> None,
          retrySeconds |-> 0]

\* canMakeRequest lines 122-149: the verdict on the cleaned state.
\* retryAfter is 'tomorrow' or a number of seconds, held in retrySeconds.
Verdict(s, t) ==
    IF s.requestsToday >= RPD
    THEN [allowed |-> FALSE, reason |-> "daily_limit_exceeded",
          retryAfter |-> "tomorrow", retrySeconds |-> 0]
    ELSE IF s.requestsThisMinute >= RPM
    THEN [allowed |-> FALSE, reason |-> "minute_limit_exceeded",
          retryAfter |-> "seconds",
          retrySeconds |-> SecPerMin - ((t % MinuteLen) \div MsPerSec)]
    ELSE [allowed |-> TRUE, reason |-> None, retryAfter |-> None,
          retrySeconds |-> 0]

\* canMakeRequest(): new state, new persistence pair and the returned object
canMakeRequest(s, d, t, ok) ==
    LET s1 == ResetDay(s, t)
        d1 == IF s.currentDay # DayOf(t) THEN saveState(d, s1, ok) ELSE d
        s2 == ResetMinute(s1, t)
        d2 == IF s1.currentMinute # MinuteOf(t) THEN saveState(d1, s2, ok) ELSE d1
        s3 == SlideWindow(s2, t)
    IN  [state |-> s3, disk |-> d2, result |-> Verdict(s3, t)]

\* recordRequest() without the push of the timestamp
RecordedStateNoTimestamp(s, t) ==
    [s EXCEPT !.requestsToday = @ + 1,
              !.requestsThisMinute = @ + 1,
              !.totalRequests = @ + 1,
              !.lastRequestTime = t]

\* recordRequest(): the counters after the call
RecordedState(s, t) ==
    [s EXCEPT !.requestsToday = @ + 1,
              !.requestsThisMinute = @ + 1,
              !.totalRequests = @ + 1,
              !.lastRequestTime = t,
              !.requestTimestamps = Append(@, t)]

\* recordRequest counting the request once more, as for a second model call
recordRequestTwice(s, d, t, ok) ==
    LET s1 == RecordedState(RecordedState(s, t), t)
    IN  [state |-> s1, disk |-> saveState(d, s1, ok)]

\* recordRequest(tokens)
recordRequest(s, d, t, ok) ==
    LET s1 == RecordedState(s, t)
    IN  [state |-> s1, disk |-> saveState(d, s1, ok)]

\* shouldThrottle with an interval one tick too short
shouldThrottleShort(s, t) ==
    LET timeSinceLastRequest == t - s.lastRequestTime
    IN  IF timeSinceLastRequest + 1 < MIN_REQUEST_INTERVAL
        THEN [throttled |-> TRUE,
              waitTime |-> CeilSec(MIN_REQUEST_INTERVAL - timeSinceLastRequest)]
        ELSE [throttled |-> FALSE, waitTime |-> 0]

\* shouldThrottle()
shouldThrottle(s, t) ==
    LET timeSinceLastRequest == t - s.lastRequestTime
    IN  IF timeSinceLastRequest < MIN_REQUEST_INTERVAL
        THEN [throttled |-> TRUE,
              waitTime |-> CeilSec(MIN_REQUEST_INTERVAL - timeSinceLastRequest)]
        ELSE [throttled |-> FALSE, waitTime |-> 0]

\* getUsageStats(): cleans the state like canMakeRequest, without saving it
getUsageStats(s, t) == SlideWindow(ResetMinute(ResetDay(s, t), t), t)


---------------------------------------------------------------------------
(* Tiered chat endpoint: unnamed/part_002 (part_003 is the same code)      *)

\* What the body of a request can hold in the `message` field.
\*   valid     a string with a non-blank character
\*   blank     "" or a string of whitespace
\*   missing   undefined / null
\*   nonstring a truthy value without a trim method (a number, an object)
\*   badjson   the body is not JSON: request.json() rejects
MsgKinds == {"valid", "blank", "missing", "nonstring", "badjson"}

\* What the model call of a tier can do: return text, return the sentinel,
\* or reject ("throw": with an error whose message has none of the words the
\* outer catch of POST looks for).
ModelOutcomes == {"text", "sentinel", "throw"}

\* Rejections whose message has one of the words the outer catch of POST
\* looks for (lines 402, 413, 423): 'quota' or 'rate limit', 'API_KEY' or
\* '401', 'SAFETY'.
ErrorKinds == {"quota", "auth", "safety"}

\* The model call rejected
Rejected(out) == out \in {"throw"} \cup ErrorKinds

NoResp == [status |-> 0, body |-> None, tier |-> -1, fields |-> {},
           rateLimited |-> FALSE,
           tier1Reason |-> None, tier2Reason |-> None, tier3Reason |-> None,
           waitTime |-> 0, retryAfter |-> None, retrySeconds |-> 0]

\* What a tryTierN call gives its caller: the object it resolves with, or
\* (thrown) an exception that escaped it.
NoResult == [success |-> FALSE, reason |-> None, tier |-> -1, thrown |-> FALSE,
             error |-> None]
TierFailure(reason) == [NoResult EXCEPT !.reason = reason]
TierError(out) == [NoResult EXCEPT !.reason = "error", !.error = out]
TierSuccess(k) == [NoResult EXCEPT !.success = TRUE, !.tier = k]
TierThrows(out) == [NoResult EXCEPT !.thrown = TRUE, !.error = out]

IdleReq == [pc |-> "idle", msg |-> None, log |-> <<>>,
            outcome |-> [k \in 1..3 |-> None],
            result |-> [k \in 1..3 |-> NoResult],
            resp |-> NoResp]

\* tryTier1 lines 60-65: getInternalContext returned null
tryTier1NoDocs == TierFailure("no_documents")

\* tryTier1 taking the sentinel for an answer
tryTier1NoSentinel(out) ==
    CASE Rejected(out)    -> TierError(out)
      [] OTHER            -> TierSuccess(1)

\* tryTier1 lines 96-139: the model call returned text, the sentinel (text
\* whose trim() is TIER1_INSUFFICIENT_SIGNAL), or threw
tryTier1(out) ==
    CASE Rejected(out)    -> TierError(out)
      [] out = "sentinel" -> TierFailure("insufficient_context")
      [] OTHER            -> TierSuccess(1)

\* tryTier2 lines 146-196
\* tryTier2 with its catch block missing: the exception escapes
tryTier2Propagates(out) ==
    CASE Rejected(out)    -> TierThrows(out)
      [] out = "sentinel" -> TierFailure("needs_current_info")
      [] OTHER            -> TierSuccess(2)

tryTier2(out) ==
    CASE Rejected(out)    -> TierError(out)
      [] out = "sentinel" -> TierFailure("needs_current_info")
      [] OTHER            -> TierSuccess(2)

\* tryTier3 lines 203-266: any non-error response is a success
tryTier3(out) ==
    CASE Rejected(out)    -> TierError(out)
      [] OTHER            -> TierSuccess(3)

\* POST lines 339-342, 353-356, 368-371: the answer of the tier that succeeded
AnswerResp(res) ==
    [NoResp EXCEPT !.status = 200, !.body = "answer", !.tier = res.tier,
                   !.fields = {"message", "metadata"}]

\* ApologyResp reporting the reason of tier 2 as that of tier 1
ApologyRespShifted(results) ==
    [NoResp EXCEPT !.status = 200, !.body = "apology", !.tier = 0,
                   !.fields = {"message", "metadata"},
                   !.tier1Reason = results[2].reason,
                   !.tier2Reason = results[2].reason,
                   !.tier3Reason = results[3].reason]

\* POST lines 378-388: all tiers failed
ApologyResp(results) ==
    [NoResp EXCEPT !.status = 200, !.body = "apology", !.tier = 0,
                   !.fields = {"message", "metadata"},
                   !.tier1Reason = results[1].reason,
                   !.tier2Reason = results[2].reason,
                   !.tier3Reason = results[3].reason]

\* POST lines 283-286
InvalidResp == [NoResp EXCEPT !.status = 400, !.body = "invalid",
                              !.fields = {"error"}]

\* ThrottledResp giving the wait under the name retryAfter
ThrottledRespRetryAfter(th) ==
    [NoResp EXCEPT !.status = 429, !.body = "throttled",
                   !.fields = {"error", "message", "retryAfter", "rateLimited"},
                   !.rateLimited = TRUE,
                   !.retryAfter = "seconds",
                   !.retrySeconds = th.waitTime]

\* POST lines 293-301
ThrottledResp(th) ==
    [NoResp EXCEPT !.status = 429, !.body = "throttled",
                   !.fields = {"error", "message", "waitTime", "rateLimited"},
                   !.rateLimited = TRUE,
                   !.waitTime = th.waitTime]

\* POST lines 308-317
QuotaResp(c) ==
    [NoResp EXCEPT !.status = 429, !.body = c.reason,
                   !.fields = {"error", "reason", "retryAfter", "rateLimited",
                               "message"},
                   !.rateLimited = TRUE,
                   !.retryAfter = c.retryAfter,
                   !.retrySeconds = c.retrySeconds]

\* POST lines 390-440: the outer catch.  The errors that reach it here (a
\* rejected request.json(), a TypeError of message?.trim()) carry none of the
\* sniffed words, so the generic 500 is returned.
ErrorResp == [NoResp EXCEPT !.status = 500, !.body = "error",
                            !.fields = {"error", "message", "details"}]

\* POST lines 401-411: the error message includes 'quota' or 'rate limit'
RateLimitedResp == [NoResp EXCEPT !.status = 429, !.body = "error",
                                  !.rateLimited = TRUE,
                                  !.fields = {"error", "message", "rateLimited"}]

\* POST lines 413-421: the error message includes 'API_KEY' or '401'
ConfigErrorResp == [NoResp EXCEPT !.status = 500, !.body = "error",
                                  !.fields = {"error", "message"}]

\* POST lines 423-431: the error message includes 'SAFETY'
FilteredResp == [NoResp EXCEPT !.status = 400, !.body = "error",
                               !.fields = {"error", "message"}]

\* POST lines 390-440: the response of the outer catch for an error of the
\* given kind
CatchResp(error) ==
    CASE error = "quota"  -> RateLimitedResp
      [] error = "auth"   -> ConfigErrorResp
      [] error = "safety" -> FilteredResp
      [] OTHER            -> ErrorResp

\* The entries a request leaves in its call log for the tiers.
TierName(k) == CASE k = 1 -> "tier1" [] k = 2 -> "tier2" [] OTHER -> "tier3"

\* The await at which tier k waits first.
TierEntry(k) == CASE k = 1 -> "t1search" [] k = 2 -> "t2model" [] OTHER -> "t3model"

\* AfterTier without the early return on success
AfterTierNoStop(q, k, out, res) ==
    LET q1 == [q EXCEPT !.outcome[k] = out, !.result[k] = res]
    IN  IF k < 3
        THEN [q1 EXCEPT !.pc = TierEntry(k + 1),
                        !.log = Append(@, TierName(k + 1))]
        ELSE IF res.success
        THEN [q1 EXCEPT !.pc = "done", !.resp = AnswerResp(res)]
        ELSE [q1 EXCEPT !.pc = "done", !.resp = ApologyResp(q1.result)]

\* POST lines 332-388: what the handler does with the result of tier k.
\* An exception escaping the tier call would land in the outer catch.
AfterTier(q, k, out, res) ==
    LET q1 == [q EXCEPT !.outcome[k] = out, !.result[k] = res]
    IN  IF res.thrown
        THEN [q1 EXCEPT !.pc = "done", !.resp = CatchResp(res.error)]
        ELSE IF res.success
        THEN [q1 EXCEPT !.pc = "done", !.resp = AnswerResp(res)]
        ELSE IF k < 3
        THEN [q1 EXCEPT !.pc = TierEntry(k + 1),
                        !.log = Append(@, TierName(k + 1))]
        ELSE [q1 EXCEPT !.pc = "done", !.resp = ApologyResp(q1.result)]

\* HandlePost with recordRequest called before the quota check
HandlePostRecordFirst(q, s, d, t, ok) ==
    IF q.msg \in {"badjson", "nonstring"}
    THEN [q |-> [q EXCEPT !.pc = "done", !.resp = ErrorResp],
          state |-> s, disk |-> d, check |-> Null]
    ELSE IF q.msg \in {"missing", "blank"}
    THEN [q |-> [q EXCEPT !.pc = "done", !.resp = InvalidResp],
          state |-> s, disk |-> d, check |-> Null]
    ELSE
    LET th == shouldThrottle(s, t)
        r  == recordRequest(s, d, t, ok)
        c  == canMakeRequest(r.state, r.disk, t, ok)
    IN  IF th.throttled
        THEN [q |-> [q EXCEPT !.pc = "done", !.resp = ThrottledResp(th),
                              !.log = <<"shouldThrottle">>],
              state |-> s, disk |-> d, check |-> Null]
        ELSE IF ~c.result.allowed
        THEN [q |-> [q EXCEPT !.pc = "done", !.resp = QuotaResp(c.result),
                              !.log = <<"shouldThrottle", "recordRequest",
                                        "canMakeRequest">>],
              state |-> c.state, disk |-> c.disk, check |-> Some(c)]
        ELSE [q |-> [q EXCEPT !.pc = TierEntry(1),
                              !.log = <<"shouldThrottle", "recordRequest",
                                        "canMakeRequest", TierName(1)>>],
              state |-> c.state, disk |-> c.disk, check |-> Some(c)]

\* HandlePost with recordRequest deferred until after the tiers' awaits: the
\* request passes the checks and starts tier 1 unrecorded
HandlePostRecordLater(q, s, d, t, ok) ==
    IF q.msg \in {"badjson", "nonstring"}
    THEN [q |-> [q EXCEPT !.pc = "done", !.resp = ErrorResp],
          state |-> s, disk |-> d, check |-> Null]
    ELSE IF q.msg \in {"missing", "blank"}
    THEN [q |-> [q EXCEPT !.pc = "done", !.resp = InvalidResp],
          state |-> s, disk |-> d, check |-> Null]
    ELSE
    LET th == shouldThrottle(s, t)
        c  == canMakeRequest(s, d, t, ok)
    IN  IF th.throttled
        THEN [q |-> [q EXCEPT !.pc = "done", !.resp = ThrottledResp(th),
                              !.log = <<"shouldThrottle">>],
              state |-> s, disk |-> d, check |-> Null]
        ELSE IF ~c.result.allowed
        THEN [q |-> [q EXCEPT !.pc = "done", !.resp = QuotaResp(c.result),
                              !.log = <<"shouldThrottle", "canMakeRequest">>],
              state |-> c.state, disk |-> c.disk, check |-> Some(c)]
        ELSE [q |-> [q EXCEPT !.pc = TierEntry(1),
                              !.log = <<"shouldThrottle", "canMakeRequest",
                                        TierName(1)>>],
              state |-> c.state, disk |-> c.disk, check |-> Some(c)]

\* POST lines 278-332: from the parsed body to the first await of tier 1.
\* Returns the request record, the guard state and the persistence pair.
HandlePost(q, s, d, t, ok) ==
    IF q.msg \in {"badjson", "nonstring"}
    THEN [q |-> [q EXCEPT !.pc = "done", !.resp = ErrorResp],
          state |-> s, disk |-> d, check |-> Null]
    ELSE IF q.msg \in {"missing", "blank"}
    THEN [q |-> [q EXCEPT !.pc = "done", !.resp = InvalidResp],
          state |-> s, disk |-> d, check |-> Null]
    ELSE
    LET th == shouldThrottle(s, t)
        c  == canMakeRequest(s, d, t, ok)
        r  == recordRequest(c.state, c.disk, t, ok)
    IN  IF th.throttled
        THEN [q |-> [q EXCEPT !.pc = "done", !.resp = ThrottledResp(th),
                              !.log = <<"shouldThrottle">>],
              state |-> s, disk |-> d, check |-> Null]
        ELSE IF ~c.result.allowed
        THEN [q |-> [q EXCEPT !.pc = "done", !.resp = QuotaResp(c.result),
                              !.log = <<"shouldThrottle", "canMakeRequest">>],
              state |-> c.state, disk |-> c.disk, check |-> Some(c)]
        ELSE [q |-> [q EXCEPT !.pc = TierEntry(1),
                              !.log = <<"shouldThrottle", "canMakeRequest",
                                        "recordRequest", TierName(1)>>],
              state |-> r.state, disk |-> r.disk, check |-> Some(c)]


---------------------------------------------------------------------------
(* RAG chat endpoint and its response cache: app/api/chat-rag/route.js     *)

\* cache TTL in seconds (CACHE_TTL: 3600000 ms in one copy of the route,
\* 7200000 ms in the other)
TtlSec == 2
CACHE_TTL == TtlSec * MsPerSec
\* retryWithBackoff(fn, maxRetries = 3)
maxRetries == 3
\* number of request slots of the RAG endpoint that may be in flight
NumRag == 1
\* last clock value explored with the RAG endpoint
MaxRagTime == 8

RagReq == 1..NumRag

\* String.prototype.toLowerCase on the letters the messages use
ToLowerChar(c) == CASE c = "I" -> "i" [] c = "T" -> "t" [] OTHER -> c
toLowerCase(m) == [i \in 1..Len(m) |-> ToLowerChar(m[i])]

\* String.prototype.trim
trim(m) ==
    LET idx == {i \in 1..Len(m) : m[i] # " "}
    IN  IF idx = {} THEN <<>>
        ELSE SubSeq(m, CHOOSE i \in idx : \A j \in idx : i <= j,
                       CHOOSE i \in idx : \A j \in idx : i >= j)

\* getCacheKey without the trim
getCacheKeyUntrimmed(message) == toLowerCase(message)

\* getCacheKey(message)
getCacheKey(message) == trim(toLowerCase(message))

\* The request bodies sent to the endpoint: message is a string (kind
\* "string"), is undefined, null or "" ("missing"), is of another type
\* ("nonstring"), or the body is not JSON ("badjson"). hist lists the course
\* numbers that the recent messages of conversationHistory mention.
RagBodies ==
    { [kind |-> "string", text |-> <<"I", "t">>, hist |-> <<>>],
      [kind |-> "string", text |-> <<" ", "i", "t", " ">>, hist |-> <<"CS101">>],
      [kind |-> "missing", text |-> <<>>, hist |-> <<>>],
      [kind |-> "nonstring", text |-> <<>>, hist |-> <<>>],
      [kind |-> "badjson", text |-> <<>>, hist |-> <<>>] }

Keys == {getCacheKey(b.text) : b \in {x \in RagBodies : x.kind = "string"}}

\* POST lines 102-107: the message has a word that refers to one thing
\* (that, it, this); the messages sent here have a single word
isSingular(message) == trim(toLowerCase(message)) \in {<<"i", "t">>}

\* POST lines 94-139: the search query is the message, preceded by the last
\* course number of the conversation when the message refers back to it
\* (the messages sent here name no course themselves)
expandQuery(message, hist) ==
    IF isSingular(message) /\ Len(hist) > 0
    THEN <<hist[Len(hist)], " ">> \o message
    ELSE message

\* What embedContent / the similarity search can do, what a generateContent
\* call can do ("nohave" is a text that includes "I don't have that specific
\* information", "transient" an error with 503, overloaded or 429 in its
\* message, "fatal" any other error).
EmbedOutcomes == {"chunks", "empty", "throw"}
CallOutcomes == {"text", "nohave", "transient", "fatal"}

\* The text of a response, by the call or fallback that produced it.
NoResponse == None

NoRagResp == [status |-> 0, body |-> None, response |-> NoResponse,
              cached |-> "absent", usedFallback |-> "absent",
              chunksFound |-> -1, searchMethod |-> None]

IdleRag == [pc |-> "idle", body |-> [kind |-> None, text |-> <<>>, hist |-> <<>>],
            key |-> <<>>, embedQuery |-> <<>>, kwQuery |-> <<>>,
            log |-> <<>>, lookup |-> None, failure |-> None, embed |-> None,
            chunks |-> 0, ranker |-> None, attempt |-> 0, wakeAt |-> 0,
            response |-> NoResponse, resp |-> NoRagResp]

\* (failure, in a request record, is the error of the main model call that
\* reached the catch of lines 268-287; embed is how the embedding call of
\* the request in progress went.)

\* What the cache held for the key at the lookup at time t: no entry
\* ("absent"), an entry younger than the TTL ("young"), one whose age is
\* exactly the TTL ("atTTL") or beyond it ("old").
LookupAge(cached, t) ==
    IF cached = Null THEN "absent"
    ELSE IF t - cached[1].timestamp < CACHE_TTL THEN "young"
    ELSE IF t - cached[1].timestamp = CACHE_TTL THEN "atTTL"
    ELSE "old"

\* The handler has returned: only the request, its log and its response stay.
Done(q, resp) ==
    [q EXCEPT !.pc = "done", !.resp = resp, !.chunks = 0, !.ranker = None,
              !.embed = None, !.attempt = 0, !.wakeAt = 0, !.response = NoResponse]

\* POST line 54: the entry may still be served at time t with the bound included
CacheFreshInclusive(entry, t) == t - entry.timestamp <= CACHE_TTL

\* POST line 54: Date.now() - cached.timestamp < CACHE_TTL
CacheFresh(entry, t) == t - entry.timestamp < CACHE_TTL

\* POST lines 45-48
RagInvalidResp == [NoRagResp EXCEPT !.status = 400, !.body = "invalid"]

\* POST lines 319-328: the outer catch
RagErrorResp == [NoRagResp EXCEPT !.status = 500, !.body = "error"]

\* POST lines 56-63: the stored payload, marked cached
RagCachedResp(entry) ==
    [NoRagResp EXCEPT !.status = 200, !.body = "answer",
                      !.response = entry.data.response,
                      !.cached = "true",
                      !.usedFallback = entry.data.usedFallback,
                      !.chunksFound = entry.data.chunksFound,
                      !.searchMethod = entry.data.searchMethod]

\* POST lines 278-285: the model failed and no chunk was retrieved
RagOverloadedResp ==
    [NoRagResp EXCEPT !.status = 200, !.body = "overloaded",
                      !.usedFallback = "true"]

\* POST lines 290-304: responseData
ResponseData(q, response, usedFallback) ==
    [response |-> response,
     chunksFound |-> q.chunks,
     searchMethod |-> IF q.chunks > 0 /\ q.ranker = "vector"
                      THEN "vector" ELSE "keyword",
     usedFallback |-> usedFallback]

\* Finish with a cache.set that keeps an entry the key already has
FinishKeepsEntry(q, c, response, usedFallback, t) ==
    LET data == ResponseData(q, response, usedFallback)
    IN  [q |-> Done([q EXCEPT !.log = Append(@, "cacheSet")],
                    [NoRagResp EXCEPT
                        !.status = 200, !.body = "answer",
                        !.response = response,
                        !.cached = "false",
                        !.usedFallback = usedFallback,
                        !.chunksFound = data.chunksFound,
                        !.searchMethod = data.searchMethod]),
         cache |-> IF c[q.key] = Null
                   THEN [c EXCEPT ![q.key] = Some([data |-> data, timestamp |-> t,
                                           query |-> q.embedQuery])]
                   ELSE c]

\* POST lines 289-317: build responseData, store it, answer with it
Finish(q, c, response, usedFallback, t) ==
    LET data == ResponseData(q, response, usedFallback)
    IN  [q |-> Done([q EXCEPT !.log = Append(@, "cacheSet")],
                    [NoRagResp EXCEPT
                        !.status = 200, !.body = "answer",
                        !.response = response,
                        !.cached = "false",
                        !.usedFallback = usedFallback,
                        !.chunksFound = data.chunksFound,
                        !.searchMethod = data.searchMethod]),
         cache |-> [c EXCEPT ![q.key] = Some([data |-> data, timestamp |-> t,
                                           query |-> q.embedQuery])]]

\* HandleRagStart serving a hit only after the embedding call was issued
HandleRagStartNoShortcut(q, c, t) ==
    IF q.body.kind = "badjson"
    THEN Done(q, RagErrorResp)
    ELSE IF q.body.kind # "string"
    THEN Done(q, RagInvalidResp)
    ELSE
    LET key == getCacheKey(q.body.text)
        cached == c[key]
        q1 == [q EXCEPT !.key = key, !.lookup = LookupAge(cached, t)]
    IN  [q1 EXCEPT !.pc = "embedding", !.log = <<"embed", "cacheGet">>,
                   !.embedQuery = expandQuery(q.body.text, q.body.hist)]

\* HandleRagStart serving an entry only to a request whose expanded search
\* query is the one the entry was computed for
HandleRagStartByQuery(q, c, t) ==
    IF q.body.kind = "badjson"
    THEN Done(q, RagErrorResp)
    ELSE IF q.body.kind # "string"
    THEN Done(q, RagInvalidResp)
    ELSE
    LET key == getCacheKey(q.body.text)
        cached == c[key]
        q1 == [q EXCEPT !.key = key, !.lookup = LookupAge(cached, t)]
    IN  IF /\ cached # Null
           /\ CacheFresh(cached[1], t)
           /\ cached[1].query = expandQuery(q.body.text, q.body.hist)
        THEN Done([q1 EXCEPT !.log = <<"cacheGet">>], RagCachedResp(cached[1]))
        ELSE [q1 EXCEPT !.pc = "embedding", !.log = <<"cacheGet", "embed">>,
                        !.embedQuery = expandQuery(q.body.text, q.body.hist)]

\* POST lines 41-64: parse, validate, look the key up in the cache
HandleRagStart(q, c, t) ==
    IF q.body.kind = "badjson"
    THEN Done(q, RagErrorResp)
    ELSE IF q.body.kind # "string"
    THEN Done(q, RagInvalidResp)
    ELSE
    LET key == getCacheKey(q.body.text)
        cached == c[key]
        q1 == [q EXCEPT !.key = key, !.lookup = LookupAge(cached, t)]
    IN  IF cached # Null /\ CacheFresh(cached[1], t)
        THEN Done([q1 EXCEPT !.log = <<"cacheGet">>], RagCachedResp(cached[1]))
        ELSE [q1 EXCEPT !.pc = "embedding", !.log = <<"cacheGet", "embed">>,
                        !.embedQuery = expandQuery(q.body.text, q.body.hist)]

\* findRelevantChunks answering a failed embedding call with an empty list
findRelevantChunksSwallows(out) ==
    [threw |-> FALSE, chunks |-> IF out = "chunks" THEN 1 ELSE 0]

\* vectorStore.js findRelevantChunks lines 35-66: the catch rethrows the
\* error of generateQueryEmbedding; otherwise the chunks over the threshold
findRelevantChunks(out) ==
    [threw |-> out = "throw", chunks |-> IF out = "chunks" THEN 1 ELSE 0]

\* POST lines 141-153 and the start of the model call (line 218):
\* kw is the number of chunks keywordSearch finds when it has to run
AfterEmbed(q, out, kw) ==
    LET found == findRelevantChunks(out)
        q0 == [q EXCEPT !.embed = out]
        q1 == IF found.threw
              THEN [q0 EXCEPT !.chunks = kw, !.ranker = "keyword",
                              !.kwQuery = expandQuery(q.body.text, q.body.hist),
                              !.log = Append(@, "keywordSearch")]
              ELSE [q0 EXCEPT !.chunks = found.chunks, !.ranker = "vector"]
    IN  [q1 EXCEPT !.pc = "model", !.attempt = 0, !.log = Append(@, "model")]

\* RetryStep that counts the last attempt one loop turn later
RetryStepOneMore(i, out) ==
    IF out \in {"text", "nohave"} THEN "return"
    ELSE IF i = maxRetries \/ out # "transient" THEN "throw"
    ELSE "retry"

\* retryWithBackoff lines 17-35: what attempt i does with the outcome of fn()
RetryStep(i, out) ==
    IF out \in {"text", "nohave"} THEN "return"
    ELSE IF i = maxRetries - 1 \/ out # "transient" THEN "throw"
    ELSE "retry"

\* Math.pow(2, i) * 1000
BackoffDelay(i) == (2 ^ i) * MsPerSec

\* the delays that a run in loop turn i may still have to wait for
RECURSIVE RemainingDelay(_)
RemainingDelay(i) ==
    IF i >= maxRetries - 1 THEN 0 ELSE BackoffDelay(i) + RemainingDelay(i + 1)

\* ticks by which calls and timers together may be late in one run
RetrySlack == 2
\* last clock value explored with retryWithBackoff alone
MaxRetryTime == StartTime + RemainingDelay(0) + RetrySlack

\* One run of retryWithBackoff(fn).
\*   pc      idle, calling (awaiting fn()), waiting (awaiting the timer),
\*           returned, thrown
\*   i       the loop variable
\*   calls   how each call of fn settled and when, in order
\*   waits   the delays of the timers set, in order
\*   wakeAt  when the timer set last is due
\*   result  the position in calls of the call whose value was returned or
\*           whose error was thrown, 0 while the run has not ended
IdleRetry == [pc |-> "idle", i |-> 0, calls |-> <<>>, waits |-> <<>>,
              wakeAt |-> 0, result |-> 0]

\* retryWithBackoff lines 17-35: fn() settles with out at time t
Retried(q, out, t) ==
    LET step == RetryStep(q.i, out)
        q1 == [q EXCEPT !.calls = Append(@, [out |-> out, at |-> t])]
    IN  CASE step = "return" -> [q1 EXCEPT !.pc = "returned", !.result = Len(q1.calls)]
          [] step = "throw"  -> [q1 EXCEPT !.pc = "thrown", !.result = Len(q1.calls)]
          [] OTHER           -> [q1 EXCEPT !.pc = "waiting",
                                           !.waits = Append(@, BackoffDelay(q.i)),
                                           !.wakeAt = t + BackoffDelay(q.i)]

\* The error that retryWithBackoff threw: the last of maxRetries transient
\* errors ("exhausted") or an error it does not retry after ("fatal").
FailureOf(i, out) ==
    IF out = "transient" /\ i = maxRetries - 1 THEN "exhausted" ELSE "fatal"

\* AfterModel without the catch of lines 268-287: the error of the model call
\* reaches the catch of lines 319-328
AfterModelUncaught(q, c, out, t) ==
    LET step == RetryStep(q.attempt, out)
        response == out
    IN  CASE step = "retry" ->
               [q |-> [q EXCEPT !.pc = "modelBackoff",
                                !.wakeAt = t + BackoffDelay(q.attempt)],
                cache |-> c]
          [] step = "return" ->
               IF q.chunks = 0 \/ out = "nohave"
               THEN [q |-> [q EXCEPT !.pc = "search", !.attempt = 0,
                                     !.response = response,
                                     !.log = Append(@, "search")],
                     cache |-> c]
               ELSE Finish(q, c, response, "false", t)
          [] OTHER ->
               [q |-> Done([q EXCEPT !.failure = FailureOf(q.attempt, out)],
                           RagErrorResp),
                cache |-> c]

\* POST lines 207-287: the main generateContent call settles
AfterModel(q, c, out, t) ==
    LET step == RetryStep(q.attempt, out)
        response == out
        failed == [q EXCEPT !.failure = FailureOf(q.attempt, out)]
    IN  CASE step = "retry" ->
               [q |-> [q EXCEPT !.pc = "modelBackoff",
                                !.wakeAt = t + BackoffDelay(q.attempt)],
                cache |-> c]
          [] step = "return" ->
               IF q.chunks = 0 \/ out = "nohave"
               THEN [q |-> [q EXCEPT !.pc = "search", !.attempt = 0,
                                     !.response = response,
                                     !.log = Append(@, "search")],
                     cache |-> c]
               ELSE Finish(q, c, response, "false", t)
          [] OTHER ->
               IF q.chunks > 0
               THEN Finish(failed, c, "fallback", "true", t)
               ELSE [q |-> Done(failed, RagOverloadedResp), cache |-> c]

\* POST lines 222-266: the Google Search generateContent call settles
AfterSearch(q, c, out, t) ==
    LET step == RetryStep(q.attempt, out)
    IN  CASE step = "retry" ->
               [q |-> [q EXCEPT !.pc = "searchBackoff",
                                !.wakeAt = t + BackoffDelay(q.attempt)],
                cache |-> c]
          [] step = "return" ->
               Finish(q, c, "search", "false", t)
          [] OTHER ->
               Finish(q, c, q.response, "false", t)

---------------------------------------------------------------------------
(* The browser client: src/src/lib/apiRouter.js and handleSendMessage of   *)
(* src/src/components/ChatGPTInterface.jsx.                                *)

\* const MAX_FAILURES = 3
MAX_FAILURES == 3
\* const COOLDOWN_PERIOD = 60000
COOLDOWN_PERIOD == MinuteLen
\* number of handleSendMessage runs that may be unfinished at once
NumSend == 2
\* words of the response that are revealed one by one
NumWords == 1
\* largest value of ragFailures explored
MaxRagFailures == 4
\* last clock value explored with the client
MaxClientTime == 8

SendIds == 1..NumSend

\* let lastRagFailure = null
NoTime == -1

RAG_API == "RAG"
FALLBACK_API == "Fallback"

\* How a fetch can settle while its signal has not fired: a response with a
\* 2xx status, a response with another status, or a network failure.
FetchOutcomes == {"ok", "httpError", "netError"}

\* One run of handleSendMessage.
\*   pc        idle, fetch (awaiting fetch), body (awaiting response.json()),
\*             reveal (in the word-by-word loop), done
\*   endpoint  the endpoint of the fetch in flight
\*   ok        response.ok of the response received
\*   aborted   controller.signal.aborted
\*   net       the requests sent over the network, in order
\*   entries   the chat-history entries written with addMessageToChat
\*   left      words still to reveal
\*   server    "processing" while the RAG route works on the request
\*   lateStore the RAG route ran cache.set for the request after the signal
\*             of the run had fired
\*   outcome   answered, cancelled (AbortError caught), error
IdleSend == [pc |-> "idle", endpoint |-> None, ok |-> FALSE,
             aborted |-> FALSE, net |-> <<>>, entries |-> <<>>, left |-> 0,
             server |-> None, lateStore |-> FALSE, outcome |-> None]

\* inCooldown lasting through the last instant of the cooldown period
inCooldownInclusive(rt, t) ==
    /\ rt.ragFailures >= MAX_FAILURES
    /\ rt.lastRagFailure # NoTime
    /\ t - rt.lastRagFailure <= COOLDOWN_PERIOD

\* callChatAPI lines 17-20 (getAPIStatus lines 98-100)
inCooldown(rt, t) ==
    /\ rt.ragFailures >= MAX_FAILURES
    /\ rt.lastRagFailure # NoTime
    /\ t - rt.lastRagFailure < COOLDOWN_PERIOD

\* fetchAPI called without handing the signal to fetch
fetchAPIWithoutSignal(endpoint, aborted) == [sent |-> TRUE, endpoint |-> endpoint]

\* fetchAPI lines 70-78: fetch(endpoint, { ..., signal }). A fetch whose
\* signal has already fired rejects with AbortError and sends no request.
fetchAPI(endpoint, aborted) == [sent |-> ~aborted, endpoint |-> endpoint]

\* resetAPIFailures, and callChatAPI lines 33-34
NoFailures == [ragFailures |-> 0, lastRagFailure |-> NoTime]

\* a failure counted without the time stamp
RagFailedNoStamp(rt, t) == [rt EXCEPT !.ragFailures = @ + 1]

\* callChatAPI lines 45-46
RagFailed(rt, t) == [ragFailures |-> rt.ragFailures + 1, lastRagFailure |-> t]

\* handleSendMessage lines 208-212: finally
Finally(u) == [isLoading |-> FALSE, abortController |-> 0]

\* handleSendMessage lines 186-207: catch (error), then finally
Caught(q, name) ==
    IF name = "AbortError"
    THEN [q EXCEPT !.pc = "done", !.outcome = "cancelled", !.endpoint = None]
    ELSE [q EXCEPT !.pc = "done", !.outcome = "error", !.endpoint = None,
                   !.entries = Append(@, "error")]

\* A request goes out (fetchAPI line 70); the RAG route starts to work on it.
Sent(q, endpoint) ==
    [q EXCEPT !.pc = "fetch", !.endpoint = endpoint, !.ok = FALSE,
              !.net = Append(@, endpoint),
              !.server = IF endpoint = RAG_API THEN "processing" ELSE @]

\* Thrown with a cancelled RAG call rethrown at once and not counted
ThrownAbortNotCounted(q, name, rt, u, t) ==
    IF q.endpoint = RAG_API /\ name # "AbortError"
    THEN LET f == fetchAPI(FALLBACK_API, q.aborted)
         IN  IF f.sent
             THEN [q |-> Sent(q, f.endpoint), router |-> RagFailed(rt, t), ui |-> u]
             ELSE [q |-> Caught(q, "AbortError"), router |-> RagFailed(rt, t),
                   ui |-> Finally(u)]
    ELSE [q |-> Caught(q, name), router |-> rt, ui |-> Finally(u)]

\* callChatAPI lines 42-65 and handleSendMessage lines 186-212: fetchAPI threw
\* an error called name at time t. A failure of the RAG call is counted and
\* the fallback endpoint is tried; a failure of the fallback call reaches
\* handleSendMessage.
Thrown(q, name, rt, u, t) ==
    IF q.endpoint = RAG_API
    THEN LET f == fetchAPI(FALLBACK_API, q.aborted)
         IN  IF f.sent
             THEN [q |-> Sent(q, f.endpoint), router |-> RagFailed(rt, t), ui |-> u]
             ELSE [q |-> Caught(q, "AbortError"), router |-> RagFailed(rt, t),
                   ui |-> Finally(u)]
    ELSE [q |-> Caught(q, name), router |-> rt, ui |-> Finally(u)]

\* callChatAPI lines 30-40 and 52-59, handleSendMessage lines 148-158:
\* fetchAPI returned the parsed response; the reveal loop starts.
Returned200(q, rt) ==
    [q |-> [q EXCEPT !.pc = "reveal", !.left = NumWords, !.endpoint = None],
     router |-> IF q.endpoint = RAG_API THEN NoFailures ELSE rt]

\* handleSendMessage lines 112-148 with callChatAPI lines 13-30: the run
\* starts in slot x. It aborts the controller the component holds, writes
\* the user message, and sends the first request.
handleSendMessage(ss, x, u, rt, t) ==
    LET old == u.abortController
        ss1 == IF old = 0 THEN ss
               ELSE [ss EXCEPT ![old].aborted = TRUE]
        endpoint == IF inCooldown(rt, t) THEN FALLBACK_API ELSE RAG_API
        f == fetchAPI(endpoint, FALSE)
    IN  [sends |-> [ss1 EXCEPT ![x] =
                       Sent([IdleSend EXCEPT !.entries = <<"user">>], f.endpoint)],
         ui |-> [isLoading |-> TRUE, abortController |-> x]]

\* fetchAPI line 70: the fetch of run q settles. After the signal fired it
\* rejects with AbortError, whatever the network did. A request lost to a
\* network failure is not worked on by the route.
FetchSettled(q, out, rt, u, t) ==
    IF q.aborted THEN Thrown(q, "AbortError", rt, u, t)
    ELSE IF out = "netError"
    THEN Thrown([q EXCEPT !.server = None], "TypeError", rt, u, t)
    ELSE [q |-> [q EXCEPT !.pc = "body", !.ok = (out = "ok")],
          router |-> rt, ui |-> u]

\* fetchAPI lines 80-85: response.json() settles. After the signal fired the
\* body read rejects; line 81 turns that rejection into { error: 'Unknown
\* error' } and line 82 throws a plain Error.
BodySettled(q, rt, u, t) ==
    IF q.ok
    THEN IF q.aborted THEN Thrown(q, "AbortError", rt, u, t)
         ELSE LET r == Returned200(q, rt)
              IN  [q |-> r.q, router |-> r.router, ui |-> u]
    ELSE Thrown(q, "Error", rt, u, t)

\* handleSendMessage lines 155-184 and 208-212: one turn of the reveal loop;
\* after the last word the bot message is written and the run ends.
Revealed(q, u) ==
    IF q.left > 1
    THEN [q |-> [q EXCEPT !.left = @ - 1], ui |-> u]
    ELSE [q |-> [q EXCEPT !.pc = "done", !.left = 0, !.outcome = "answered",
                          !.entries = Append(@, "bot")],
          ui |-> Finally(u)]

---------------------------------------------------------------------------
(* History kept for the statements about accepted requests.                *)

\* accepted requests that are still in the 60 s before t or on the day of t
KeepAccepted(acc, t) ==
    SelectSeq(acc, LAMBDA x : x > t - MinuteLen \/ DayOf(x) = DayOf(t))

\* number of accepted requests recorded in the 60 s before t
InWindow(acc, t) == Len(SelectSeq(acc, LAMBDA x : x > t - MinuteLen))

\* number of accepted requests recorded on the wall-clock day of t
OnDay(acc, t) == Len(SelectSeq(acc, LAMBDA x : DayOf(x) = DayOf(t)))

NoCheck == [op |-> None, allowed |-> FALSE, reason |-> None,
            retryAfter |-> None, retrySeconds |-> 0, requestsThisMinute |-> 0,
            inWindow |-> 0, onDay |-> 0]

\* The record of a canMakeRequest / getUsageStats call made at t on history acc
CheckRecord(op, verdict, s, acc, t) ==
    [op |-> op, allowed |-> verdict.allowed, reason |-> verdict.reason,
     retryAfter |-> verdict.retryAfter, retrySeconds |-> verdict.retrySeconds,
     requestsThisMinute |-> s.requestsThisMinute,
     inWindow |-> InWindow(acc, t), onDay |-> OnDay(acc, t)]

---------------------------------------------------------------------------
(* Actions of the server process                                          *)

TypeOK ==
    /\ now \in StartTime..MaxTime
    /\ state.requestsToday \in Nat
    /\ state.totalRequests \in Nat
    /\ \A r \in Req : req[r].pc \in {"idle", "parsing", "t1search", "t1model",
                                     "t2model", "t3model", "done"}

Init ==
    /\ now = StartTime
    /\ state = createDefaultState(StartTime)
    /\ stateFile = Null
    /\ inMemoryState = Null
    /\ fsUp = TRUE
    /\ req = [r \in Req |-> IdleReq]
    /\ lastCheck = NoCheck
    /\ accepted = <<>>
    /\ lastAccepted = -1
    /\ rag = [r \in RagReq |-> IdleRag]
    /\ cache = [k \in Keys |-> Null]
    /\ sends = [x \in SendIds |-> IdleSend]
    /\ ui = [isLoading |-> FALSE, abortController |-> 0]
    /\ router = [ragFailures |-> 0, lastRagFailure |-> NoTime]
    /\ retry = IdleRetry
    /\ call = NoCall

\* The clock advances.
Tick ==
    /\ now < MaxTime
    /\ now' = now + 1
    /\ accepted' = KeepAccepted(accepted, now + 1)
    /\ lastCheck' = NoCheck
    /\ UNCHANGED <<clientVars, retry, call, rag, cache, state, stateFile, inMemoryState, fsUp, req, lastAccepted>>

\* The slots after slot r took the step that leaves it as q: the response of
\* a request that completed earlier is kept only until the next step of the
\* endpoint.
Slots(rs, idle, r, q) ==
    [x \in DOMAIN rs |-> IF x = r THEN q
                         ELSE IF rs[x].pc = "done" THEN idle ELSE rs[x]]

\* A request reaches POST /api/chat: the handler awaits request.json().
Arrive(r, m) ==
    /\ req[r].pc \in {"idle", "done"}
    /\ \A x \in Req : x < r => req[x].pc \notin {"idle", "done"}
    /\ req' = Slots(req, IdleReq, r, [IdleReq EXCEPT !.pc = "parsing", !.msg = m])
    /\ lastCheck' = NoCheck
    /\ UNCHANGED <<clientVars, retry, call, rag, cache, now, state, stateFile, inMemoryState, fsUp,
                   accepted, lastAccepted>>

\* POST lines 278-332: validation, throttle check, quota check, recordRequest
\* and the start of tier 1, one synchronous run of the handler.
PostGuard(r) ==
    /\ req[r].pc = "parsing"
    /\ LET h == HandlePost(req[r], state, Disk(stateFile, inMemoryState), now, fsUp)
           recorded == h.q.pc = TierEntry(1)
       IN  /\ req' = Slots(req, IdleReq, r, h.q)
           /\ state' = h.state
           /\ stateFile' = h.disk.file
           /\ inMemoryState' = h.disk.mem
           /\ lastCheck' = IF h.check = Null THEN NoCheck
                           ELSE CheckRecord("canMakeRequest", h.check[1].result,
                                            h.check[1].state, accepted, now)
           /\ accepted' = IF recorded THEN Append(accepted, now) ELSE accepted
           /\ lastAccepted' = IF recorded THEN now ELSE lastAccepted
    /\ UNCHANGED <<clientVars, retry, call, rag, cache, now, fsUp>>

\* tryTier1 lines 60-65: getInternalContext resolves (its own errors are caught
\* in documentProcessor.js and come back as null).
Tier1Search(r, found) ==
    /\ req[r].pc = "t1search"
    /\ req' = Slots(req, IdleReq, r,
                    IF found THEN [req[r] EXCEPT !.pc = "t1model"]
                    ELSE AfterTier(req[r], 1, "null", tryTier1NoDocs))
    /\ lastCheck' = NoCheck
    /\ UNCHANGED <<clientVars, retry, call, rag, cache, now, state, stateFile, inMemoryState, fsUp,
                   accepted, lastAccepted>>

\* tryTier1 lines 96-139: model.generateContent settles.
Tier1Model(r, out) ==
    /\ req[r].pc = "t1model"
    /\ req' = Slots(req, IdleReq, r, AfterTier(req[r], 1, out, tryTier1(out)))
    /\ lastCheck' = NoCheck
    /\ UNCHANGED <<clientVars, retry, call, rag, cache, now, state, stateFile, inMemoryState, fsUp,
                   accepted, lastAccepted>>

\* tryTier2 lines 170-196
Tier2Model(r, out) ==
    /\ req[r].pc = "t2model"
    /\ req' = Slots(req, IdleReq, r, AfterTier(req[r], 2, out, tryTier2(out)))
    /\ lastCheck' = NoCheck
    /\ UNCHANGED <<clientVars, retry, call, rag, cache, now, state, stateFile, inMemoryState, fsUp,
                   accepted, lastAccepted>>

\* tryTier3 lines 230-266
Tier3Model(r, out) ==
    /\ req[r].pc = "t3model"
    /\ req' = Slots(req, IdleReq, r, AfterTier(req[r], 3, out, tryTier3(out)))
    /\ lastCheck' = NoCheck
    /\ UNCHANGED <<clientVars, retry, call, rag, cache, now, state, stateFile, inMemoryState, fsUp,
                   accepted, lastAccepted>>

\* GET /api/usage (route.js lines 712-758): getUsageStats()
UsageGet ==
    /\ state' = getUsageStats(state, now)
    /\ lastCheck' = CheckRecord("getUsageStats", NoCheck,
                                getUsageStats(state, now), accepted, now)
    /\ UNCHANGED <<clientVars, retry, call, rag, cache, now, stateFile, inMemoryState, fsUp, req, accepted,
                   lastAccepted>>

Next ==
    \/ Tick
    \/ \E r \in Req, m \in MsgKinds : Arrive(r, m)
    \/ \E r \in Req : PostGuard(r)
    \/ \E r \in Req, found \in BOOLEAN : Tier1Search(r, found)
    \/ \E r \in Req, out \in ModelOutcomes : Tier1Model(r, out)
    \/ \E r \in Req, out \in ModelOutcomes : Tier2Model(r, out)
    \/ \E r \in Req, out \in ModelOutcomes : Tier3Model(r, out)
    \/ UsageGet

Spec == Init /\ [][Next]_vars

\* The tiered endpoint with the rejections of the model calls told apart by
\* the words of their message.
NextErrors ==
    \/ Tick
    \/ \E r \in Req, m \in MsgKinds : Arrive(r, m)
    \/ \E r \in Req : PostGuard(r)
    \/ \E r \in Req, found \in BOOLEAN : Tier1Search(r, found)
    \/ \E r \in Req, out \in ModelOutcomes \cup ErrorKinds : Tier1Model(r, out)
    \/ \E r \in Req, out \in ModelOutcomes \cup ErrorKinds : Tier2Model(r, out)
    \/ \E r \in Req, out \in ModelOutcomes \cup ErrorKinds : Tier3Model(r, out)
    \/ UsageGet

SpecErrors == Init /\ [][NextErrors]_vars

\* Two invocations of the tiered endpoint in one process: the handlers
\* interleave at their awaits (request.json(), getInternalContext,
\* generateContent), and nowhere else.
Handlers == {1, 2}

InitConcurrent ==
    /\ now = StartTime
    /\ state = createDefaultState(StartTime)
    /\ stateFile = Null
    /\ inMemoryState = Null
    /\ fsUp = TRUE
    /\ req = [r \in Handlers |-> IdleReq]
    /\ lastCheck = NoCheck
    /\ accepted = <<>>
    /\ lastAccepted = -1
    /\ rag = [r \in RagReq |-> IdleRag]
    /\ cache = [k \in Keys |-> Null]
    /\ sends = [x \in SendIds |-> IdleSend]
    /\ ui = [isLoading |-> FALSE, abortController |-> 0]
    /\ router = [ragFailures |-> 0, lastRagFailure |-> NoTime]
    /\ retry = IdleRetry
    /\ call = NoCall

\* a request with a valid message reaches the endpoint
ArriveValid(r) ==
    /\ req[r].pc \in {"idle", "done"}
    /\ req' = Slots(req, IdleReq, r, [IdleReq EXCEPT !.pc = "parsing", !.msg = "valid"])
    /\ lastCheck' = NoCheck
    /\ UNCHANGED <<clientVars, retry, call, rag, cache, now, state, stateFile,
                   inMemoryState, fsUp, accepted, lastAccepted>>

NextConcurrent ==
    \/ Tick
    \/ \E r \in Handlers : ArriveValid(r)
    \/ \E r \in Handlers : PostGuard(r)
    \/ \E r \in Handlers, found \in BOOLEAN : Tier1Search(r, found)
    \/ \E r \in Handlers, out \in {"text", "throw"} : Tier1Model(r, out)
    \/ \E r \in Handlers, out \in {"text", "throw"} : Tier2Model(r, out)
    \/ \E r \in Handlers, out \in {"text", "throw"} : Tier3Model(r, out)
    \/ UsageGet

SpecConcurrent == InitConcurrent /\ [][NextConcurrent]_vars

---------------------------------------------------------------------------
(* The guard called directly, with a file system that can fail             *)

\* How the load of the module went (lines 18-28 and 45-66, 85): the data
\* directory could not be created, the state file exists and could not be
\* read or parsed, there is no state file, or the state was loaded.
LoadOutcomes == {"mkdirFails", "loadFails", "noFile", "loaded"}

\* A state that an earlier process saved: one request recorded at time 0.
SavedState == RecordedState(createDefaultState(0), 0)

\* Module load, lines 18-28 and 85 (let state = loadState()): the state and
\* the persistence pair the process starts with.
loadState(out, t) ==
    CASE out = "mkdirFails" ->
           [state |-> createDefaultState(t),
            disk |-> Disk(Null, Some(createDefaultState(t)))]
      [] out = "loadFails" ->
           [state |-> createDefaultState(t),
            disk |-> Disk(Some(SavedState), Some(createDefaultState(t)))]
      [] out = "noFile" ->
           [state |-> createDefaultState(t), disk |-> Disk(Null, Null)]
      [] OTHER ->
           [state |-> SavedState, disk |-> Disk(Some(SavedState), Null)]

nonGuardVars == <<req, rag, cache, sends, ui, router, retry, call>>

InitGuard ==
    /\ now = StartTime
    /\ \E out \in LoadOutcomes :
          LET l == loadState(out, StartTime)
          IN  /\ state = l.state
              /\ stateFile = l.disk.file
              /\ inMemoryState = l.disk.mem
              /\ accepted = l.state.requestTimestamps
              /\ lastAccepted = IF l.state.totalRequests > 0
                                THEN l.state.lastRequestTime ELSE -1
    /\ fsUp \in BOOLEAN
    /\ req = [r \in Req |-> IdleReq]
    /\ lastCheck = NoCheck
    /\ rag = [r \in RagReq |-> IdleRag]
    /\ cache = [k \in Keys |-> Null]
    /\ sends = [x \in SendIds |-> IdleSend]
    /\ ui = [isLoading |-> FALSE, abortController |-> 0]
    /\ router = [ragFailures |-> 0, lastRagFailure |-> NoTime]
    /\ retry = IdleRetry
    /\ call = NoCall

\* writeFileSync starts or stops failing (disk full, read-only mount, ...)
FsChange ==
    /\ fsUp' = ~fsUp
    /\ lastCheck' = NoCheck
    /\ UNCHANGED <<nonGuardVars, now, state, stateFile, inMemoryState,
                   accepted, lastAccepted>>

\* a call of canMakeRequest()
CallCanMakeRequest ==
    /\ LET c == canMakeRequest(state, Disk(stateFile, inMemoryState), now, fsUp)
       IN  /\ state' = c.state
           /\ stateFile' = c.disk.file
           /\ inMemoryState' = c.disk.mem
           /\ lastCheck' = CheckRecord("canMakeRequest", c.result, c.state,
                                       accepted, now)
    /\ UNCHANGED <<nonGuardVars, now, fsUp, accepted, lastAccepted>>

\* a call of recordRequest(), made as the endpoint makes it: right after a
\* canMakeRequest() that allowed the request
CallRecordRequest ==
    /\ lastCheck.op = "canMakeRequest"
    /\ lastCheck.allowed
    /\ LET r == recordRequest(state, Disk(stateFile, inMemoryState), now, fsUp)
       IN  /\ state' = r.state
           /\ stateFile' = r.disk.file
           /\ inMemoryState' = r.disk.mem
    /\ accepted' = Append(accepted, now)
    /\ lastAccepted' = now
    /\ lastCheck' = NoCheck
    /\ UNCHANGED <<nonGuardVars, now, fsUp>>

NextGuard ==
    \/ Tick
    \/ FsChange
    \/ CallCanMakeRequest
    \/ CallRecordRequest
    \/ UsageGet

SpecGuard == InitGuard /\ [][NextGuard]_vars

\* The four functions of the guard called in any order from the default
\* state, recordRequest also without a check before it.
\* largest number of recordRequest calls followed
MaxRecorded == 4

\* a call of recordRequest() at any time
CallRecordRequestAny ==
    /\ state.totalRequests < MaxRecorded
    /\ LET r == recordRequest(state, Disk(stateFile, inMemoryState), now, fsUp)
       IN  /\ state' = r.state
           /\ stateFile' = r.disk.file
           /\ inMemoryState' = r.disk.mem
    /\ accepted' = Append(accepted, now)
    /\ lastAccepted' = now
    /\ lastCheck' = NoCheck
    /\ UNCHANGED <<nonGuardVars, now, fsUp>>

\* a call of shouldThrottle(): it reads lastRequestTime and writes nothing
CallShouldThrottle ==
    /\ lastCheck' = [NoCheck EXCEPT !.op = "shouldThrottle",
                                    !.allowed = ~shouldThrottle(state, now).throttled]
    /\ UNCHANGED <<nonGuardVars, now, fsUp, state, stateFile, inMemoryState,
                   accepted, lastAccepted>>

NextCalls ==
    \/ Tick
    \/ CallCanMakeRequest
    \/ CallRecordRequestAny
    \/ CallShouldThrottle
    \/ UsageGet

SpecCalls == Init /\ [][NextCalls]_vars

\* The same calls, with the last denial kept: the function that denied, the
\* time of the call, the hint it returned (retryAfter or waitTime, in
\* seconds) and the number of requests recorded so far.
Denial(fn, t, hint, s) ==
    [fn |-> fn, at |-> t, hint |-> hint, total |-> s.totalRequests]

\* a call of canMakeRequest(); a denial for the per-minute limit is kept
CheckQuota ==
    /\ LET c == canMakeRequest(state, Disk(stateFile, inMemoryState), now, fsUp)
       IN  /\ state' = c.state
           /\ stateFile' = c.disk.file
           /\ inMemoryState' = c.disk.mem
           /\ lastCheck' = CheckRecord("canMakeRequest", c.result, c.state,
                                       accepted, now)
           /\ call' = IF c.result.reason = "minute_limit_exceeded"
                      THEN Denial("canMakeRequest", now, c.result.retrySeconds,
                                  c.state)
                      ELSE call
    /\ UNCHANGED <<req, rag, cache, sends, ui, router, retry, now, fsUp,
                   accepted, lastAccepted>>

\* a call of shouldThrottle(); a throttled answer is kept
CheckThrottle ==
    /\ LET th == shouldThrottle(state, now)
       IN  /\ lastCheck' = [NoCheck EXCEPT !.op = "shouldThrottle",
                                           !.allowed = ~th.throttled]
           /\ call' = IF th.throttled
                      THEN Denial("shouldThrottle", now, th.waitTime, state)
                      ELSE call
    /\ UNCHANGED <<req, rag, cache, sends, ui, router, retry, now, fsUp, state,
                   stateFile, inMemoryState, accepted, lastAccepted>>

NextHints ==
    \/ Tick
    \/ CheckQuota
    \/ CheckThrottle
    \/ CallRecordRequestAny
    \/ UsageGet

SpecHints == Init /\ [][NextHints]_vars

---------------------------------------------------------------------------
(* Actions of the RAG endpoint                                             *)

guardVars == <<state, stateFile, inMemoryState, fsUp, req, lastCheck,
               accepted, lastAccepted>>

\* The clock advances by a second.
RagTick ==
    /\ now + MsPerSec <= MaxRagTime
    /\ now' = now + MsPerSec
    /\ UNCHANGED <<clientVars, retry, call, rag, cache, guardVars>>

\* A request reaches POST /api/chat-rag: the handler awaits req.json().
RagArrive(r, b) ==
    /\ rag[r].pc \in {"idle", "done"}
    /\ \A x \in RagReq : x < r => rag[x].pc \notin {"idle", "done"}
    /\ rag' = Slots(rag, IdleRag, r, [IdleRag EXCEPT !.pc = "parsing", !.body = b])
    /\ UNCHANGED <<clientVars, retry, call, now, cache, guardVars>>

\* POST lines 41-64
RagStart(r) ==
    /\ rag[r].pc = "parsing"
    /\ rag' = Slots(rag, IdleRag, r, HandleRagStart(rag[r], cache, now))
    /\ UNCHANGED <<clientVars, retry, call, now, cache, guardVars>>

\* POST lines 141-153: findRelevantChunks settles
RagEmbed(r, out, kw) ==
    /\ rag[r].pc = "embedding"
    /\ out # "throw" => kw = 0
    /\ rag' = Slots(rag, IdleRag, r, AfterEmbed(rag[r], out, kw))
    /\ UNCHANGED <<clientVars, retry, call, now, cache, guardVars>>

\* POST lines 207-287
RagModel(r, out) ==
    /\ rag[r].pc = "model"
    /\ LET a == AfterModel(rag[r], cache, out, now)
       IN  /\ rag' = Slots(rag, IdleRag, r, a.q)
           /\ cache' = a.cache
    /\ UNCHANGED <<clientVars, retry, call, now, guardVars>>

\* POST lines 222-266
RagSearch(r, out) ==
    /\ rag[r].pc = "search"
    /\ out # "nohave"
    /\ LET a == AfterSearch(rag[r], cache, out, now)
       IN  /\ rag' = Slots(rag, IdleRag, r, a.q)
           /\ cache' = a.cache
    /\ UNCHANGED <<clientVars, retry, call, now, guardVars>>

\* retryWithBackoff lines 31-33: the delay is over, fn() is called again
RagBackoffDone(r) ==
    /\ rag[r].pc \in {"modelBackoff", "searchBackoff"}
    /\ now >= rag[r].wakeAt
    /\ rag' = Slots(rag, IdleRag, r,
                    [rag[r] EXCEPT
                        !.pc = IF @ = "modelBackoff" THEN "model" ELSE "search",
                        !.attempt = @ + 1,
                        !.wakeAt = 0])
    /\ UNCHANGED <<clientVars, retry, call, now, cache, guardVars>>

NextRag ==
    \/ RagTick
    \/ \E r \in RagReq, b \in RagBodies : RagArrive(r, b)
    \/ \E r \in RagReq : RagStart(r)
    \/ \E r \in RagReq, out \in EmbedOutcomes, kw \in 0..1 : RagEmbed(r, out, kw)
    \/ \E r \in RagReq, out \in CallOutcomes : RagModel(r, out)
    \/ \E r \in RagReq, out \in CallOutcomes : RagSearch(r, out)
    \/ \E r \in RagReq : RagBackoffDone(r)

SpecRag == Init /\ [][NextRag]_vars



---------------------------------------------------------------------------
(* The browser client.                                                     *)

serverVars == <<state, stateFile, inMemoryState, fsUp, req, lastCheck,
                accepted, lastAccepted, rag, cache>>

\* RAG fetches that have not settled yet
RagInFlight == {x \in SendIds : sends[x].pc \in {"fetch", "body"}
                                   /\ sends[x].endpoint = RAG_API}

\* The clock advances by a second. The client reads it only to stamp a RAG failure and to
\* compare it with that stamp once MAX_FAILURES failures are on record, so
\* only the time that passes after that is followed.
ClientTick ==
    /\ now + MsPerSec <= MaxClientTime
    /\ router.ragFailures >= MAX_FAILURES
    /\ now' = now + MsPerSec
    /\ UNCHANGED <<clientVars, serverVars, retry, call>>

\* handleSendMessage is invoked: by a form of the page, which returns at once
\* while isLoading is set (lines 278-283, 289-293), or directly
\* (handleSuggestionClick, lines 215-217).
SendMessage(x, viaForm) ==
    /\ sends[x].pc \in {"idle", "done"}
    /\ \A y \in SendIds : y < x => sends[y].pc \notin {"idle", "done"}
    /\ viaForm => ~ui.isLoading
    /\ router.ragFailures + Cardinality(RagInFlight) < MaxRagFailures
    /\ LET h == handleSendMessage(sends, x, ui, router, now)
       IN  /\ sends' = Slots(h.sends, IdleSend, x, h.sends[x])
           /\ ui' = h.ui
    /\ UNCHANGED <<router, now, serverVars, retry, call>>

\* The RAG route ends its work on the request of run x, with or without
\* storing a cache entry (route.js lines 306-310); it does not look at the
\* connection of the client.
ServerRag(x, stores) ==
    /\ sends[x].server = "processing"
    /\ sends' = Slots(sends, IdleSend, x,
                      [sends[x] EXCEPT !.server = None,
                                       !.lateStore = stores /\ sends[x].aborted])
    /\ UNCHANGED <<ui, router, now, serverVars, retry, call>>

\* The fetch of run x settles.
FetchSettles(x, out) ==
    /\ sends[x].pc = "fetch"
    /\ (~sends[x].aborted /\ out # "netError" /\ sends[x].endpoint = RAG_API)
          => sends[x].server # "processing"
    /\ sends[x].aborted => out = "netError"
    /\ LET h == FetchSettled(sends[x], out, router, ui, now)
       IN  /\ sends' = Slots(sends, IdleSend, x, h.q)
           /\ router' = h.router
           /\ ui' = h.ui
    /\ UNCHANGED <<now, serverVars, retry, call>>

\* response.json() of run x settles.
BodySettles(x) ==
    /\ sends[x].pc = "body"
    /\ LET h == BodySettled(sends[x], router, ui, now)
       IN  /\ sends' = Slots(sends, IdleSend, x, h.q)
           /\ router' = h.router
           /\ ui' = h.ui
    /\ UNCHANGED <<now, serverVars, retry, call>>

\* The 30 ms timer of the reveal loop of run x fires.
RevealStep(x) ==
    /\ sends[x].pc = "reveal"
    /\ LET h == Revealed(sends[x], ui)
       IN  /\ sends' = Slots(sends, IdleSend, x, h.q)
           /\ ui' = h.ui
    /\ UNCHANGED <<router, now, serverVars, retry, call>>

\* resetAPIFailures()
ResetFailures ==
    /\ router # NoFailures
    /\ router' = NoFailures
    /\ UNCHANGED <<sends, ui, now, serverVars, retry, call>>

NextClient ==
    \/ ClientTick
    \/ \E x \in SendIds, viaForm \in BOOLEAN : SendMessage(x, viaForm)
    \/ \E x \in SendIds, stores \in BOOLEAN : ServerRag(x, stores)
    \/ \E x \in SendIds, out \in FetchOutcomes : FetchSettles(x, out)
    \/ \E x \in SendIds : BodySettles(x)
    \/ \E x \in SendIds : RevealStep(x)
    \/ ResetFailures

SpecClient == Init /\ [][NextClient]_vars

\* The client with endpoints that never fail: every fetch whose signal has
\* not fired gets a 2xx response, so a call ends in an error only when the
\* user cancelled it.
\* Three runs of handleSendMessage may be unfinished at once.
Runs == {1, 2, 3}

InitCancel ==
    /\ now = StartTime
    /\ state = createDefaultState(StartTime)
    /\ stateFile = Null
    /\ inMemoryState = Null
    /\ fsUp = TRUE
    /\ req = [r \in Req |-> IdleReq]
    /\ lastCheck = NoCheck
    /\ accepted = <<>>
    /\ lastAccepted = -1
    /\ rag = [r \in RagReq |-> IdleRag]
    /\ cache = [k \in Keys |-> Null]
    /\ sends = [x \in Runs |-> IdleSend]
    /\ ui = [isLoading |-> FALSE, abortController |-> 0]
    /\ router = [ragFailures |-> 0, lastRagFailure |-> NoTime]
    /\ retry = IdleRetry
    /\ call = NoCall

NextCancel ==
    \/ ClientTick
    \/ \E x \in Runs, viaForm \in BOOLEAN : SendMessage(x, viaForm)
    \/ \E x \in Runs, stores \in BOOLEAN : ServerRag(x, stores)
    \/ \E x \in Runs :
          FetchSettles(x, IF sends[x].aborted THEN "netError" ELSE "ok")
    \/ \E x \in Runs : BodySettles(x)
    \/ \E x \in Runs : RevealStep(x)

SpecCancel == InitCancel /\ [][NextCancel]_vars

---------------------------------------------------------------------------
(* retryWithBackoff on its own.                                            *)

otherVars == <<state, stateFile, inMemoryState, fsUp, req, lastCheck,
               accepted, lastAccepted, rag, cache, clientVars, call>>

\* The clock advances, as long as the delays the run may still have to wait
\* for end by MaxRetryTime.
RetryTick ==
    /\ now < MaxRetryTime
    /\ retry.pc = "calling" => now + 1 + RemainingDelay(retry.i) <= MaxRetryTime
    /\ retry.pc = "waiting" =>
          \/ now + 1 <= retry.wakeAt
          \/ now + 1 + RemainingDelay(retry.i + 1) <= MaxRetryTime
    /\ now' = now + 1
    /\ UNCHANGED <<retry, call, otherVars>>

\* retryWithBackoff(fn) is called, with time left for both delays.
RetryBegin ==
    /\ retry.pc \in {"idle", "returned", "thrown"}
    /\ now + RemainingDelay(0) <= MaxRetryTime
    /\ retry' = [IdleRetry EXCEPT !.pc = "calling"]
    /\ UNCHANGED <<now, otherVars>>

\* fn() settles.
RetryCall(out) ==
    /\ retry.pc = "calling"
    /\ retry' = Retried(retry, out, now)
    /\ UNCHANGED <<now, otherVars>>

\* The timer of line 32 fires, the loop goes on.
RetryWake ==
    /\ retry.pc = "waiting"
    /\ now >= retry.wakeAt
    /\ retry' = [retry EXCEPT !.pc = "calling", !.i = @ + 1]
    /\ UNCHANGED <<now, otherVars>>

NextRetry ==
    \/ RetryTick
    \/ RetryBegin
    \/ \E out \in CallOutcomes : RetryCall(out)
    \/ RetryWake

\* Every call of fn settles, every timer fires, time passes.
SpecRetry ==
    /\ Init
    /\ [][NextRetry]_vars
    /\ WF_vars(RetryTick)
    /\ WF_vars(\E out \in CallOutcomes : RetryCall(out))
    /\ WF_vars(RetryWake)

---------------------------------------------------------------------------
(* The rankers of src/lib/vectorStore.js and the query expansion of the    *)
(* RAG endpoint, as functions of their arguments.                          *)

\* longest vector handed to cosineSimilarity
MaxDim == 2

\* the components the vectors are made of
VecVals == {-1, 0, 1}

\* the vectors: arrays of up to MaxDim numbers
Vectors == UNION {[1..n -> VecVals] : n \in 0..MaxDim}

\* the vectors a call can get, the missing one included
VectorArgs == {Null} \cup {Some(v) : v \in Vectors}

RECURSIVE SumSeq(_)
SumSeq(xs) == IF xs = <<>> THEN 0 ELSE xs[1] + SumSeq(Tail(xs))

\* A JavaScript number that cosineSimilarity can return: NaN, or the real
\* number d / sqrt(q) with q > 0 (rounding is not followed).
NaN == [kind |-> "NaN", d |-> 0, q |-> 1]
Real(d, q) == [kind |-> "num", d |-> IF d = 0 THEN 0 ELSE d,
               q |-> IF d = 0 THEN 1 ELSE q]
Zero == Real(0, 1)

\* dotProduct / (magnitudeA * magnitudeB) with magnitudes sqrt(a2), sqrt(b2):
\* a division by 0 gives NaN for 0 / 0 (a vector of magnitude 0 makes the dot
\* product 0 too)
Quotient(dot, a2, b2) == IF a2 * b2 = 0 THEN NaN ELSE Real(dot, a2 * b2)

\* cosineSimilarity(vecA, vecB), lines 24-32. An argument is Null when the
\* vector is missing (undefined or null) and Some(v) for the array v; an
\* empty array is not missing: ![] is false.
cosineSimilarity(vecA, vecB) ==
    IF vecA = Null \/ vecB = Null THEN Zero
    ELSE IF Len(vecA[1]) # Len(vecB[1]) THEN Zero
    ELSE LET a == vecA[1]
             b == vecB[1]
             dotProduct == SumSeq([i \in 1..Len(a) |-> a[i] * b[i]])
             a2 == SumSeq([i \in 1..Len(a) |-> a[i] * a[i]])
             b2 == SumSeq([i \in 1..Len(b) |-> b[i] * b[i]])
         IN  Quotient(dotProduct, a2, b2)

\* x >= y on the numbers above, as JavaScript compares them: false when one
\* of them is NaN
NumGE(x, y) ==
    /\ x.kind = "num" /\ y.kind = "num"
    /\ IF x.d >= 0 /\ y.d < 0 THEN TRUE
       ELSE IF x.d < 0 /\ y.d >= 0 THEN FALSE
       ELSE IF x.d >= 0 THEN x.d * x.d * y.q >= y.d * y.d * x.q
       ELSE x.d * x.d * y.q <= y.d * y.d * x.q

\* a call of cosineSimilarity that has not returned
CosineCall(a, b) ==
    [fn |-> "cosineSimilarity", vecA |-> a, vecB |-> b, out |-> Null]

\* number of chunks of the knowledge base, largest topK asked for
NumChunks == 3
MaxTopK == 2

\* The chunks a knowledge base is made of: with an embedding or without, in
\* one of two categories.
ChunkEmbeddings ==
    {Null, Some(<<1, 0>>), Some(<<1, 1>>), Some(<<0, 1>>), Some(<<0, 0>>)}
Categories == {"dining", "courses"}
KnowledgeBases ==
    [1..NumChunks -> [embedding : ChunkEmbeddings, category : Categories]]

\* the chunks of knowledge base kb, each with its position as id
Chunks(kb) ==
    [i \in 1..Len(kb) |->
        [id |-> i, embedding |-> kb[i].embedding, category |-> kb[i].category]]

\* Array.prototype.slice(0, n)
Slice(xs, n) == SubSeq(xs, 1, IF n < Len(xs) THEN n ELSE Len(xs))

\* chunks.sort((a, b) => b.similarity - a.similarity): the sort of the
\* engine is stable, so chunks that compare equal keep their order
RECURSIVE InsertBySimilarity(_, _)
InsertBySimilarity(sorted, c) ==
    IF sorted = <<>> THEN <<c>>
    ELSE IF NumGE(Head(sorted).similarity, c.similarity)
    THEN <<Head(sorted)>> \o InsertBySimilarity(Tail(sorted), c)
    ELSE <<c>> \o sorted

RECURSIVE SortBySimilarity(_)
SortBySimilarity(xs) ==
    IF xs = <<>> THEN <<>>
    ELSE InsertBySimilarity(SortBySimilarity(SubSeq(xs, 1, Len(xs) - 1)),
                            xs[Len(xs)])

\* lines 47-53: the chunks with an embedding and of the category asked for,
\* each with its similarity to the query
Scored(chunks, queryEmbedding, category) ==
    LET kept == SelectSeq(SelectSeq(chunks, LAMBDA c : c.embedding # Null),
                          LAMBDA c : category = None \/ c.category = category)
    IN  [i \in 1..Len(kept) |->
            [id |-> kept[i].id, embedding |-> kept[i].embedding,
             category |-> kept[i].category,
             similarity |-> cosineSimilarity(Some(queryEmbedding),
                                             kept[i].embedding)]]

\* relevantChunks without the filter on minScore
relevantChunksNoThreshold(chunks, queryEmbedding, topK, minScore, category) ==
    Slice(SortBySimilarity(Scored(chunks, queryEmbedding, category)), topK)

\* findRelevantChunks lines 47-60, after the query embedding arrived: the
\* value of relevantChunks in the route
relevantChunks(chunks, queryEmbedding, topK, minScore, category) ==
    LET scored == Scored(chunks, queryEmbedding, category)
        above == SelectSeq(scored, LAMBDA c : NumGE(c.similarity, minScore))
    IN  Slice(SortBySimilarity(above), topK)

\* a call of findRelevantChunks that has not returned: the knowledge base,
\* the query embedding, and the options topK, minScore and category
FindCall(kb, q, k, m, c) ==
    [fn |-> "findRelevantChunks", kb |-> kb, queryEmbedding |-> q,
     topK |-> k, minScore |-> m, category |-> c, out |-> Null]

\* query.split(/\s+/) on a string given as its characters: a run of blanks
\* separates two pieces, and a blank at either end leaves an empty piece
RECURSIVE SplitFrom(_, _, _)
SplitFrom(s, i, piece) ==
    IF i > Len(s) THEN <<piece>>
    ELSE IF s[i] = " "
    THEN IF i > 1 /\ s[i - 1] = " " THEN SplitFrom(s, i + 1, piece)
         ELSE <<piece>> \o SplitFrom(s, i + 1, <<>>)
    ELSE SplitFrom(s, i + 1, Append(piece, s[i]))

split(s) == SplitFrom(s, 1, <<>>)

\* String.prototype.includes and Array.prototype.includes
includes(text, word) ==
    \E i \in 0..(Len(text) - Len(word)) : SubSeq(text, i + 1, i + Len(word)) = word
arrayIncludes(list, word) == \E i \in 1..Len(list) : list[i] = word

\* line 70
queryWords(query) == SelectSeq(split(toLowerCase(query)), LAMBDA w : Len(w) > 2)

\* lines 76-78: chunk.keywords?.includes(word) is undefined, so no match, for
\* a chunk without a keyword list
contentMatches(chunk, words) ==
    Len(SelectSeq(words, LAMBDA w : includes(toLowerCase(chunk.content), w)))
titleMatches(chunk, words) ==
    Len(SelectSeq(words, LAMBDA w : includes(toLowerCase(chunk.title), w)))
keywordMatches(chunk, words) ==
    Len(SelectSeq(words, LAMBDA w :
            chunk.keywords # Null /\ arrayIncludes(chunk.keywords[1], w)))

\* A score num / den kept as a fraction; 0 / 0 is NaN, and no other division
\* by zero happens because the counts are 0 when there is no query word
Ratio(num, den) ==
    IF den = 0 THEN [kind |-> "NaN", num |-> 0, den |-> 1]
    ELSE [kind |-> "num", num |-> num, den |-> den]
RatioGE(x, y) == x.kind = "num" /\ y.kind = "num" /\ x.num * y.den >= y.num * x.den
Positive(x) == x.kind = "num" /\ x.num > 0

\* line 80, with numerator and denominator doubled to stay in the integers
matchScore(chunk, words) ==
    Ratio(2 * contentMatches(chunk, words) + 4 * titleMatches(chunk, words)
             + 3 * keywordMatches(chunk, words),
          2 * Len(words))

\* lines 85-89
matches(chunk, words) ==
    SelectSeq(words, LAMBDA w :
        \/ includes(toLowerCase(chunk.content), w)
        \/ includes(toLowerCase(chunk.title), w)
        \/ chunk.keywords # Null /\ arrayIncludes(chunk.keywords[1], w))

\* .sort((a, b) => b.matchScore - a.matchScore), stable
RECURSIVE InsertByMatchScore(_, _)
InsertByMatchScore(sorted, c) ==
    IF sorted = <<>> THEN <<c>>
    ELSE IF RatioGE(Head(sorted).matchScore, c.matchScore)
    THEN <<Head(sorted)>> \o InsertByMatchScore(Tail(sorted), c)
    ELSE <<c>> \o sorted

RECURSIVE SortByMatchScore(_)
SortByMatchScore(xs) ==
    IF xs = <<>> THEN <<>>
    ELSE InsertByMatchScore(SortByMatchScore(SubSeq(xs, 1, Len(xs) - 1)),
                            xs[Len(xs)])

\* lines 72-90: every chunk with its score and its matched words
KeywordScored(chunks, words) ==
    [i \in 1..Len(chunks) |->
        [id |-> i, matchScore |-> matchScore(chunks[i], words),
         matches |-> matches(chunks[i], words)]]

\* keywordSearch without the filter on matchScore > 0
keywordSearchKeepsZero(chunks, query, topK) ==
    Slice(SortByMatchScore(KeywordScored(chunks, queryWords(query))), topK)

\* keywordSearch, lines 69-96
keywordSearch(chunks, query, topK) ==
    LET scored == KeywordScored(chunks, queryWords(query))
        hit == SelectSeq(scored, LAMBDA c : Positive(c.matchScore))
    IN  Slice(SortByMatchScore(hit), topK)

\* The chunks the keyword search is followed on: title, content and keyword
\* list (which a chunk may lack)
KeywordChunks ==
    { [title |-> <<"D", "I", "n">>, content |-> <<"d", "i", "n", " ", "e", "a", "t">>,
       keywords |-> Some(<< <<"d", "i", "n">>, <<"e", "a", "t">> >>)],
      [title |-> <<"e", "a", "t">>, content |-> <<"d", "i", "n", "e">>,
       keywords |-> Null],
      [title |-> <<"x">>, content |-> <<"e", "a", "t">>,
       keywords |-> Some(<< <<"d", "i", "n">> >>)],
      [title |-> <<"x">>, content |-> <<"i", "t">>, keywords |-> Some(<<>>)],
      [title |-> <<"d", "i", "n", "e">>, content |-> <<"x">>, keywords |-> Null] }

\* The queries: one word, two words, a repeated word, a capital, a leading
\* blank, only short words, and the empty string
KeywordQueries ==
    { <<"d", "i", "n">>,
      <<"d", "I", "n", " ", " ", "e", "a", "t">>,
      <<"d", "i", "n", " ", "d", "i", "n">>,
      <<" ", "e", "a", "t">>,
      <<"e", "a", "t", " ", "x", "y", "z">>,
      <<"i", "t", " ", "x">>,
      <<>> }

\* a call of keywordSearch that has not returned
KeywordCall(c, q, k) ==
    [fn |-> "keywordSearch", chunks |-> c, query |-> q, topK |-> k,
     out |-> Null]

\* longest conversation history the expansion is followed on
MaxHist == 5

\* A message as the pieces the expansion looks at: a match of
\* /CS\s*(\d{3}[A-Z]?)/gi, with the text matched and the course it names, or
\* any other word.
CourseToken(text, num) == [kind |-> "course", text |-> text, num |-> num]
WordToken(text) == [kind |-> "word", text |-> text, num |-> 0]
CS101 == CourseToken("CS 101", 101)
cs101 == CourseToken("cs101", 101)
CS202 == CourseToken("CS 202", 202)

\* message.match(/CS\s*(\d{3}[A-Z]?)/gi) || []: the texts matched, in order
courseMatches(text) ==
    LET found == SelectSeq(text, LAMBDA k : k.kind = "course")
    IN  [i \in 1..Len(found) |-> found[i].text]

\* line 98
currentCourses(message) == courseMatches(message)

\* lower-casing of a word of the messages sent here
ToLowerWord(w) == CASE w = "It" -> "it" [] w = "Them" -> "them" [] OTHER -> w

\* lines 101-109: message.toLowerCase().split(/\s+/) has one of the words
singularWords == {"that", "it", "this"}
pluralWords == {"all", "others", "them", "these", "those"}
HasWord(message, words) ==
    \E i \in 1..Len(message) :
       message[i].kind = "word" /\ ToLowerWord(message[i].text) \in words
isSingularRef(message) == HasWord(message, singularWords)
isPlural(message) == HasWord(message, pluralWords)

\* lines 113-114
lookbackMessages(message) == IF isSingularRef(message) THEN 2 ELSE 4
recentMessages(message, conversationHistory) ==
    LET n == lookbackMessages(message)
        len == Len(conversationHistory)
    IN  SubSeq(conversationHistory, IF len > n THEN len - n + 1 ELSE 1, len)

\* lines 115-123: the matches of the current message, then the ones of the
\* recent messages, oldest first
RECURSIVE MatchesOf(_)
MatchesOf(msgs) ==
    IF msgs = <<>> THEN <<>>
    ELSE courseMatches(Head(msgs).content) \o MatchesOf(Tail(msgs))
courseNumbers(message, conversationHistory) ==
    currentCourses(message)
       \o MatchesOf(recentMessages(message, conversationHistory))

\* line 127, [...new Set(courseNumbers)]: the strings without the repeats,
\* each at the place of its first occurrence
RECURSIVE uniqueCourses(_)
uniqueCourses(xs) ==
    IF xs = <<>> THEN <<>>
    ELSE LET front == uniqueCourses(SubSeq(xs, 1, Len(xs) - 1))
         IN  IF \E i \in 1..Len(front) : front[i] = xs[Len(xs)]
             THEN front ELSE Append(front, xs[Len(xs)])

\* line 130
coursesToUse(message, unique) ==
    IF isSingularRef(message) THEN <<unique[Len(unique)]>> ELSE unique

\* the words of a message as they stand in the search query
TextOf(message) == [i \in 1..Len(message) |-> message[i].text]

\* lines 95-139: the search query, as the sequence of its space-separated
\* parts
searchQuery(message, conversationHistory) ==
    IF (isSingularRef(message) \/ isPlural(message)) /\ Len(conversationHistory) > 0
    THEN LET found == courseNumbers(message, conversationHistory)
         IN  IF Len(found) > 0
             THEN coursesToUse(message, uniqueCourses(found)) \o TextOf(message)
             ELSE TextOf(message)
    ELSE IF Len(currentCourses(message)) > 0
    THEN currentCourses(message) \o <<"schedule", "timing", "location">>
            \o TextOf(message)
    ELSE TextOf(message)

\* The messages and the prior messages the expansion is followed on
ExpandMessages ==
    { <<WordToken("it")>>, <<WordToken("It"), CS101>>,
      <<WordToken("them")>>, <<WordToken("them"), cs101>>,
      <<WordToken("it"), WordToken("them")>>,
      <<WordToken("hi")>>, <<WordToken("hi"), CS202, CS101>> }
HistoryContents ==
    {<<WordToken("hi")>>, <<CS101>>, <<cs101>>, <<CS202>>, <<CS101, CS202>>}
\* the conversation histories of n prior messages
Histories(n) == [1..n -> [content : HistoryContents]]

\* a request whose search query has not been computed
ExpandCall(m, h) ==
    [fn |-> "searchQuery", message |-> m, conversationHistory |-> h,
     out |-> Null]

InitPure ==
    /\ now = StartTime
    /\ state = createDefaultState(StartTime)
    /\ stateFile = Null
    /\ inMemoryState = Null
    /\ fsUp = TRUE
    /\ req = [r \in Req |-> IdleReq]
    /\ lastCheck = NoCheck
    /\ accepted = <<>>
    /\ lastAccepted = -1
    /\ rag = [r \in RagReq |-> IdleRag]
    /\ cache = [k \in Keys |-> Null]
    /\ sends = [x \in SendIds |-> IdleSend]
    /\ ui = [isLoading |-> FALSE, abortController |-> 0]
    /\ router = [ragFailures |-> 0, lastRagFailure |-> NoTime]
    /\ retry = IdleRetry
    /\ \/ \E a, b \in VectorArgs : call = CosineCall(a, b)
       \/ \E kb \in KnowledgeBases, q \in {<<1, 0>>, <<1, 1>>},
             k \in 1..MaxTopK, m \in {Zero, Real(1, 4)},
             c \in {None, "dining"} :
             call = FindCall(kb, q, k, m, c)
       \/ \E c \in [1..NumChunks -> KeywordChunks], q \in KeywordQueries,
             k \in 1..MaxTopK :
             call = KeywordCall(c, q, k)
       \/ \E m \in ExpandMessages, n \in 0..MaxHist :
             \E h \in Histories(n) : call = ExpandCall(m, h)

pureVars == <<now, state, stateFile, inMemoryState, fsUp, req, lastCheck,
              accepted, lastAccepted, rag, cache, sends, ui, router, retry>>

\* the call of cosineSimilarity returns
CallCosineSimilarity ==
    /\ call.fn = "cosineSimilarity"
    /\ call.out = Null
    /\ call' = [call EXCEPT !.out = Some(cosineSimilarity(call.vecA, call.vecB))]
    /\ UNCHANGED pureVars

\* the call of findRelevantChunks returns
CallFindRelevantChunks ==
    /\ call.fn = "findRelevantChunks"
    /\ call.out = Null
    /\ call' = [call EXCEPT !.out =
                   Some(relevantChunks(Chunks(call.kb), call.queryEmbedding,
                                       call.topK, call.minScore, call.category))]
    /\ UNCHANGED pureVars

\* the call of keywordSearch returns
CallKeywordSearch ==
    /\ call.fn = "keywordSearch"
    /\ call.out = Null
    /\ call' = [call EXCEPT !.out =
                   Some(keywordSearch(call.chunks, call.query, call.topK))]
    /\ UNCHANGED pureVars

\* step 2 of POST: the search query is computed
ExpandQueryStep ==
    /\ call.fn = "searchQuery"
    /\ call.out = Null
    /\ call' = [call EXCEPT !.out =
                   Some(searchQuery(call.message, call.conversationHistory))]
    /\ UNCHANGED pureVars

NextPure ==
    \/ CallCosineSimilarity
    \/ CallFindRelevantChunks
    \/ CallKeywordSearch
    \/ ExpandQueryStep

SpecPure == InitPure /\ [][NextPure]_vars

---------------------------------------------------------------------------
(* Properties of the tiered endpoint and the guard (specification Spec)    *)

\* the tier entries of a request's call log, in call order
TiersInvoked(q) == SelectSeq(q.log, LAMBDA e : e \in {"tier1", "tier2", "tier3"})

\* tier k has returned to the handler
Returned(q, k) == q.outcome[k] # None

\* tier k has returned a failure
Failed(q, k) == Returned(q, k) /\ ~q.result[k].success

\* C1: the tiers of a request are invoked in the order 1, 2, 3; tier k+1 only
\* after tier k returned a failure; none after a success; and the answer's
\* metadata.tier is the index of the first tier that succeeded.
C1_TiersInOrder ==
    \A r \in Req :
        LET q == req[r]
            n == Len(TiersInvoked(q))
        IN  /\ TiersInvoked(q) = SubSeq(<<"tier1", "tier2", "tier3">>, 1, n)
            /\ \A k \in 2..n : Failed(q, k - 1)
            /\ \A k \in 1..3 : Returned(q, k) => k <= n
            /\ \A k \in 1..3 : (Returned(q, k) /\ q.result[k].success) =>
                   /\ n = k
                   /\ q.pc = "done"
                   /\ q.resp.body = "answer"
                   /\ q.resp.tier = k
                   /\ \A j \in 1..(k - 1) : Failed(q, j)
            /\ q.resp.body = "answer" =>
                   \E k \in 1..3 : Returned(q, k) /\ q.result[k].success

\* a request answered by tier 3 after tiers 1 and 2 failed
C1_Witness ==
    \E r \in Req : /\ req[r].pc = "done"
                   /\ req[r].resp.tier = 3
                   /\ Failed(req[r], 1) /\ Failed(req[r], 2)

\* C2: a tier whose model call throws reports failure with reason 'error';
\* the exception does not leave the tier: the next tier is invoked and the
\* request ends with a normal (200) response.
C2_ThrowIsTierFailure ==
    \A r \in Req : \A k \in 1..3 :
        req[r].outcome[k] = "throw" =>
            /\ ~req[r].result[k].thrown
            /\ ~req[r].result[k].success
            /\ req[r].result[k].reason = "error"
            /\ k < 3 => TierName(k + 1) \in {req[r].log[i] : i \in 1..Len(req[r].log)}
            /\ req[r].resp.status \in {0, 200}
            /\ req[r].pc = "done" => req[r].resp.status = 200

\* tier 2 threw and tier 3 then answered the request
C2_Witness ==
    \E r \in Req : /\ req[r].outcome[2] = "throw"
                   /\ req[r].pc = "done"
                   /\ req[r].resp.tier = 3

\* C3: the apology is the response exactly when all three tiers failed; it has
\* metadata.tier = 0 and the three reasons the tiers reported; a response that
\* a tier answered carries no failure reason.
C3_ApologyIffAllFailed ==
    \A r \in Req :
        LET q == req[r]
        IN  q.pc = "done" =>
              /\ q.resp.body = "apology" <=> (\A k \in 1..3 : Failed(q, k))
              /\ q.resp.body = "apology" =>
                    /\ q.resp.status = 200
                    /\ q.resp.tier = 0
                    /\ q.resp.tier1Reason = q.result[1].reason
                    /\ q.resp.tier2Reason = q.result[2].reason
                    /\ q.resp.tier3Reason = q.result[3].reason
                    /\ q.result[1].reason # None
                    /\ q.result[2].reason # None
                    /\ q.result[3].reason # None
              /\ q.resp.body = "answer" =>
                    /\ q.resp.tier1Reason = None
                    /\ q.resp.tier2Reason = None
                    /\ q.resp.tier3Reason = None

\* the apology after 'no_documents', 'needs_current_info' and 'error'
C3_Witness ==
    \E r \in Req : /\ req[r].pc = "done"
                   /\ req[r].resp.body = "apology"
                   /\ req[r].resp.tier1Reason = "no_documents"
                   /\ req[r].resp.tier2Reason = "needs_current_info"
                   /\ req[r].resp.tier3Reason = "error"

\* position of the first occurrence of e in the log, 0 when absent
PosIn(log, e) ==
    IF \E i \in 1..Len(log) : log[i] = e
    THEN CHOOSE i \in 1..Len(log) : log[i] = e /\ \A j \in 1..(i - 1) : log[j] # e
    ELSE 0

\* the guard calls and tier calls of a request are in the order of the claim
GuardOrder(q) ==
    LET th == PosIn(q.log, "shouldThrottle")
        cm == PosIn(q.log, "canMakeRequest")
        rr == PosIn(q.log, "recordRequest")
        t1 == PosIn(q.log, "tier1")
    IN  /\ rr > 0 => (th > 0 /\ cm > 0 /\ th < rr /\ cm < rr)
        /\ t1 > 0 => (rr > 0 /\ rr < t1)
        /\ q.resp.status = 429 => (rr = 0 /\ TiersInvoked(q) = <<>>)

C6_DailyLimit ==
    lastCheck.op = "canMakeRequest" =>
        /\ lastCheck.onDay >= RPD =>
              /\ ~lastCheck.allowed
              /\ lastCheck.reason = "daily_limit_exceeded"
              /\ lastCheck.retryAfter = "tomorrow"
        /\ lastCheck.onDay < RPD => lastCheck.reason # "daily_limit_exceeded"
        /\ lastCheck.onDay = 0 => lastCheck.allowed

\* the first check of a new day is allowed after a day that used up the quota
C6_Witness ==
    /\ lastCheck.op = "canMakeRequest"
    /\ lastCheck.allowed
    /\ lastCheck.onDay = 0
    /\ DayOf(now) > DayOf(StartTime)
    /\ state.totalRequests = RPD + 1
    /\ state.requestsToday = 1

\* C7: a request that arrives less than MIN_REQUEST_INTERVAL after the last
\* accepted request is denied as throttled with a wait time of at least one
\* second, whatever quota remains; the reference time of the throttle check
\* is always the time of the last accepted request.
C7_ThrottleFromLastAccepted ==
    [][\A r \in Req :
          /\ lastAccepted' >= 0 => state'.lastRequestTime = lastAccepted'
          /\ (req[r].pc = "parsing" /\ req'[r].pc # "parsing"
                /\ req[r].msg = "valid"
                /\ lastAccepted >= 0
                /\ now - lastAccepted < MIN_REQUEST_INTERVAL) =>
               /\ req'[r].resp.status = 429
               /\ req'[r].resp.body = "throttled"
               /\ req'[r].resp.waitTime >= 1
               /\ req'[r].resp.waitTime * MsPerSec >=
                      MIN_REQUEST_INTERVAL - (now - lastAccepted)
               /\ lastAccepted' = lastAccepted
      ]_vars

\* a throttled request while both quotas still have room
C7_Witness ==
    \E r \in Req : /\ req[r].pc = "done"
                   /\ req[r].resp.body = "throttled"
                   /\ lastAccepted >= 0
                   /\ now - lastAccepted < MIN_REQUEST_INTERVAL
                   /\ state.requestsToday < RPD
                   /\ Len(state.requestTimestamps) < RPM

\* C8: after a canMakeRequest or getUsageStats call, requestsThisMinute is the
\* number of accepted requests recorded in the 60 seconds before the call.
C8_SlidingWindowCount ==
    lastCheck.op \in {"canMakeRequest", "getUsageStats"} =>
        lastCheck.requestsThisMinute = lastCheck.inWindow


---------------------------------------------------------------------------
(* Properties of the RAG endpoint (specification SpecRag)                  *)

\* the entries of a call log that are calls to the embedding or the model
Upstream == {"embed", "model", "search"}

LogSet(log) == {log[i] : i \in 1..Len(log)}

\* C5: no endpoint issues an upstream embedding or model call for a request
\* unless the guard's checks passed for it and the request was recorded.
C5_GuardCoversAllCallers ==
    /\ \A r \in Req :
          TiersInvoked(req[r]) # <<>> => "recordRequest" \in LogSet(req[r].log)
    /\ \A r \in RagReq :
          LogSet(rag[r].log) \cap Upstream # {} =>
              {"shouldThrottle", "canMakeRequest", "recordRequest"}
                  \subseteq LogSet(rag[r].log)

\* the lookup of the request found an entry whose age had reached the TTL
Expired(q) == q.lookup \in {"atTTL", "old"}

C10_HitServesStored ==
    [][\A r \in RagReq :
          /\ LogSet(rag'[r].log) \cap (Upstream \cup {"keywordSearch"}) # {} =>
                (Len(rag'[r].log) >= 1 /\ rag'[r].log[1] = "cacheGet")
          /\ (rag[r].pc = "parsing" /\ rag'[r].pc # "parsing"
                /\ rag[r].body.kind = "string"
                /\ cache[getCacheKey(rag[r].body.text)] # Null
                /\ now - cache[getCacheKey(rag[r].body.text)][1].timestamp
                      < CACHE_TTL) =>
               /\ rag'[r].pc = "done"
               /\ rag'[r].resp.status = 200
               /\ rag'[r].resp.cached = "true"
               /\ rag'[r].resp.response =
                      cache[getCacheKey(rag[r].body.text)][1].data.response
               /\ rag'[r].log = <<"cacheGet">>
               /\ cache' = cache
      ]_vars

\* a hit for a message that differs in case and spacing from the stored one
C10_Witness ==
    \E r \in RagReq : /\ rag[r].pc = "done"
                      /\ rag[r].resp.cached = "true"
                      /\ rag[r].body.text = <<" ", "i", "t", " ">>
                      /\ rag[r].resp.response = "search"
                      /\ cache[rag[r].key][1].timestamp < now

\* the lookup of the request found nothing it could serve
Missed(q) == q.lookup \in {"absent", "atTTL", "old"}

Normalised(m) == trim(toLowerCase(m))

\* C12: the entry a request stores is filed under its lower-cased, trimmed
\* raw message, whatever search query the request was expanded to; and a
\* request is answered with cached = true, without computing a search query,
\* whenever an entry younger than the TTL is filed under the lower-cased,
\* trimmed form of its message, so whenever an earlier request whose message
\* differs from its own only in case or surrounding whitespace was answered
\* less than the TTL ago.
C12_KeyIsNormalisedMessage ==
    [][\A r \in RagReq :
          LET k == Normalised(rag[r].body.text) IN
          /\ (rag[r].pc # "done" /\ rag'[r].pc = "done"
                /\ "cacheSet" \in LogSet(rag'[r].log)) =>
               /\ cache'[k] # Null
               /\ cache'[k][1].timestamp = now
               /\ cache'[k][1].query = rag'[r].embedQuery
          /\ (rag[r].pc = "parsing" /\ rag'[r].pc # "parsing"
                /\ rag[r].body.kind = "string"
                /\ cache[k] # Null
                /\ now - cache[k][1].timestamp < CACHE_TTL) =>
               /\ rag'[r].resp.cached = "true"
               /\ rag'[r].embedQuery = <<>>
      ]_vars

\* a request without history is answered from the entry that a request with
\* another letter case, other spacing and a longer search query stored
C12_Witness ==
    \E r \in RagReq : /\ rag[r].pc = "done"
                      /\ rag[r].body.text = <<"I", "t">>
                      /\ rag[r].resp.cached = "true"
                      /\ cache[rag[r].key][1].query =
                            <<"CS101", " ", " ", "i", "t", " ">>
                      /\ now - cache[rag[r].key][1].timestamp < CACHE_TTL
                      /\ cache[rag[r].key][1].timestamp < now

\* C16: when the main model call fails for good (the retries are used up,
\* or the error is one that is not retried), the request is still answered
\* with status 200: with the answer built from the first retrieved chunk and
\* usedFallback = true when at least one chunk was retrieved, with the fixed
\* apology when none was.
C16_ModelFailureDegrades ==
    [][\A r \in RagReq :
          /\ (rag[r].pc = "model" /\ rag'[r].failure # None) =>
               /\ rag'[r].pc = "done"
               /\ rag'[r].resp.status = 200
               /\ rag'[r].failure = "exhausted" =>
                      rag[r].attempt = maxRetries - 1
               /\ IF rag[r].chunks > 0
                  THEN /\ rag'[r].resp.body = "answer"
                       /\ rag'[r].resp.response = "fallback"
                       /\ rag'[r].resp.usedFallback = "true"
                       /\ rag'[r].resp.chunksFound = rag[r].chunks
                  ELSE /\ rag'[r].resp.body = "overloaded"
                       /\ rag'[r].resp.response = NoResponse
          /\ (rag[r].pc = "model" /\ rag'[r].pc = "done"
                /\ rag'[r].failure = None) =>
               rag'[r].resp.response \in {"text"}
      ]_vars

\* a request whose model call failed three times with a transient error is
\* answered from the retrieved chunk
C16_Witness ==
    \E r \in RagReq : /\ rag[r].pc = "done"
                      /\ rag[r].failure = "exhausted"
                      /\ rag[r].resp.status = 200
                      /\ rag[r].resp.response = "fallback"
                      /\ rag[r].resp.usedFallback = "true"
                      /\ now >= StartTime + BackoffDelay(0) + BackoffDelay(1)

\* C17: a failed embedding call is reported by findRelevantChunks as a
\* failure, and then (and only then) the endpoint ranks by keywords, on the
\* expanded query it had passed to the similarity search; after a successful
\* embedding the keyword ranker is not run, even with no chunk retrieved.
C17_KeywordRankerOnlyOnFailure ==
    \A r \in RagReq :
       rag[r].embed # None =>
          /\ rag[r].pc \in {"model", "modelBackoff", "search", "searchBackoff"}
          /\ (rag[r].embed = "throw") = (rag[r].ranker = "keyword")
          /\ (rag[r].embed = "throw") = (PosIn(rag[r].log, "keywordSearch") > 0)
          /\ rag[r].embed = "throw" =>
                /\ rag[r].kwQuery = rag[r].embedQuery
                /\ rag[r].kwQuery = expandQuery(rag[r].body.text, rag[r].body.hist)
          /\ rag[r].embed # "throw" =>
                /\ rag[r].ranker = "vector"
                /\ rag[r].kwQuery = <<>>
                /\ rag[r].chunks = IF rag[r].embed = "chunks" THEN 1 ELSE 0

\* the embedding call failed for a message whose search query was expanded,
\* and the keyword ranker found a chunk for that query
C17_Witness ==
    \E r \in RagReq : /\ rag[r].embed = "throw"
                      /\ rag[r].ranker = "keyword"
                      /\ rag[r].chunks = 1
                      /\ rag[r].kwQuery = rag[r].embedQuery
                      /\ rag[r].kwQuery # rag[r].body.text

\* The status the outer catch of POST gives an error of the given kind
SniffedStatus(kind) ==
    CASE kind = "quota"  -> 429
      [] kind = "auth"   -> 500
      [] kind = "safety" -> 400

\* C18: when the last model call of a request fails with a quota, an API-key
\* or a content-safety error, the response has the status that goes with the
\* error message: 429, 500 or 400.
C18_StatusFromErrorMessage ==
    \A r \in Req : \A k \in 1..3 :
       ( /\ req[r].pc = "done"
         /\ req[r].outcome[k] \in ErrorKinds
         /\ \A j \in 1..3 : j > k => req[r].outcome[j] = None )
       => req[r].resp.status = SniffedStatus(req[r].outcome[k])

\* C19 as stated: every 429 response, throttled or over quota, has the
\* fields error, message, retryAfter and rateLimited = true.
C19_Every429HasRetryAfter ==
    \A r \in Req :
       (req[r].pc = "done" /\ req[r].resp.status = 429) =>
          /\ {"error", "message", "retryAfter", "rateLimited"}
                \subseteq req[r].resp.fields
          /\ req[r].resp.rateLimited

\* C19: every 429 response has the fields error, message and
\* rateLimited = true; the 429 of a request over quota also has reason and
\* retryAfter, the 429 of a throttled request has waitTime (a positive number
\* of seconds) and no retryAfter.
C19_429Fields ==
    \A r \in Req :
       (req[r].pc = "done" /\ req[r].resp.status = 429) =>
          /\ {"error", "message", "rateLimited"} \subseteq req[r].resp.fields
          /\ req[r].resp.rateLimited
          /\ req[r].resp.body \in {"throttled", "daily_limit_exceeded",
                                    "minute_limit_exceeded"}
          /\ IF req[r].resp.body = "throttled"
             THEN /\ "waitTime" \in req[r].resp.fields
                  /\ "retryAfter" \notin req[r].resp.fields
                  /\ req[r].resp.waitTime >= 1
                  /\ req[r].resp.retryAfter = None
             ELSE /\ {"reason", "retryAfter"} \subseteq req[r].resp.fields
                  /\ req[r].resp.retryAfter # None

\* a request that came too soon after the last accepted one got its 429
C19_Witness ==
    \E r \in Req : /\ req[r].pc = "done"
                   /\ req[r].resp.status = 429
                   /\ req[r].resp.body = "throttled"
                   /\ "waitTime" \in req[r].resp.fields
                   /\ lastAccepted >= 0

\* C20: a guard call whose save fails still completes with the counters it
\* would have with a working file system, leaving the file as it was; and
\* once the guard is in memory (after a failed directory creation, load or
\* save) it stays so and no later call writes the state file, even when the
\* file system works again.
C20_DegradesToMemory ==
    [][ /\ (inMemoryState = Null /\ inMemoryState' # Null) =>
             /\ ~fsUp
             /\ stateFile' = stateFile
             /\ state' = IF accepted' # accepted
                         THEN RecordedState(state, now)
                         ELSE canMakeRequest(state, Disk(stateFile, Null),
                                             now, TRUE).state
        /\ inMemoryState # Null =>
             /\ inMemoryState' # Null
             /\ stateFile' = stateFile
      ]_vars

\* a save failed after an earlier one had reached the file, the file system
\* works again, and a later request was recorded in memory only
C20_Witness ==
    /\ inMemoryState # Null
    /\ fsUp
    /\ stateFile # Null
    /\ stateFile[1].totalRequests >= 1
    /\ inMemoryState[1].totalRequests >= stateFile[1].totalRequests + 2
    /\ inMemoryState[1].totalRequests = state.totalRequests

\* C21: while the state file can be written (no failure so far, and the file
\* system works), every step of the guard that records an accepted request or
\* resets the daily or the per-minute counter, getUsageStats included, leaves
\* in the file the state as it is after the step.
C21_FileFollowsResets ==
    [][ ( /\ inMemoryState = Null
          /\ fsUp
          /\ \/ Len(accepted') = Len(accepted) + 1
             \/ state'.currentDay # state.currentDay
             \/ state'.currentMinute # state.currentMinute )
        => stateFile' = Some(state')
      ]_vars

\* C22: a call of getUsageStats by the usage endpoint leaves every field of
\* the rate-limit state as it was.
C22_UsageGetReadOnly ==
    [][ lastCheck'.op = "getUsageStats" => state' = state ]_vars

\* C24: a request to the tiered endpoint whose message is missing or is not
\* a string is answered with status 400 by the step that parsed it, and that
\* step calls neither the guard nor a tier and leaves the guard's state, the
\* state file and the response cache as they were.
C24_InvalidRejected400 ==
    [][\A r \in Req :
          ( /\ req[r].pc = "parsing"
            /\ req[r].msg \in {"missing", "nonstring"}
            /\ req'[r] # req[r] ) =>
             /\ req'[r].pc = "done"
             /\ req'[r].resp.status = 400
             /\ req'[r].log = <<>>
             /\ state' = state
             /\ stateFile' = stateFile
             /\ inMemoryState' = inMemoryState
             /\ cache' = cache
      ]_vars

\* C25: when the document search of tier 1 finds nothing, tier 1 fails with
\* 'no_documents' without a model call and tier 2 is attempted next; when
\* the model call of tier 1 returns the sentinel, tier 1 fails with
\* 'insufficient_context' (and tier 2 is attempted); when it returns any
\* other text, tier 1 succeeds and the request is answered by tier 1.
C25_Tier1Reasons ==
    [][\A r \in Req :
          /\ (req[r].pc = "t1search" /\ req'[r].pc # "t1search") =>
                \/ /\ req'[r].pc = "t1model"
                   /\ req'[r].outcome[1] = None
                \/ /\ req'[r].pc = "t2model"
                   /\ req'[r].outcome[1] = "null"
                   /\ req'[r].result[1] = TierFailure("no_documents")
                   /\ req'[r].log = Append(req[r].log, "tier2")
          /\ (req[r].pc = "t1model" /\ req'[r].outcome[1] = "sentinel") =>
                /\ req'[r].result[1] = TierFailure("insufficient_context")
                /\ req'[r].pc = "t2model"
                /\ req'[r].log = Append(req[r].log, "tier2")
          /\ (req[r].pc = "t1model" /\ req'[r].outcome[1] = "text") =>
                /\ req'[r].result[1] = TierSuccess(1)
                /\ req'[r].pc = "done"
                /\ req'[r].resp.status = 200
                /\ req'[r].resp.tier = 1
      ]_vars

\* tier 2 is being tried after the document search of tier 1 found nothing
C25_Witness ==
    \E r \in Req : /\ req[r].pc = "t2model"
                   /\ req[r].outcome[1] = "null"
                   /\ req[r].result[1].reason = "no_documents"
                   /\ TiersInvoked(req[r]) = <<"tier1", "tier2">>

---------------------------------------------------------------------------
(* Properties of the rankers and of the query expansion (SpecPure)         *)

\* C27: cosineSimilarity returns exactly 0 whenever a vector is missing or
\* empty, the lengths differ, or a vector has magnitude 0.
C27_CosineZeroOnDegenerate ==
    (call.fn = "cosineSimilarity" /\ call.out # Null) =>
       LET a == call.vecA
           b == call.vecB
           zeroMag(v) == \A i \in 1..Len(v) : v[i] = 0
       IN  ( \/ a = Null \/ b = Null
             \/ a[1] = <<>> \/ b[1] = <<>>
             \/ Len(a[1]) # Len(b[1])
             \/ zeroMag(a[1]) \/ zeroMag(b[1]) )
           => call.out = Some(Zero)

\* the chunks of the call that pass the three filters of findRelevantChunks
Eligible(c) ==
    {x \in {Chunks(c.kb)[i] : i \in 1..Len(c.kb)} :
        /\ x.embedding # Null
        /\ c.category = None \/ x.category = c.category
        /\ NumGE(cosineSimilarity(Some(c.queryEmbedding), x.embedding),
                 c.minScore)}

\* C26: findRelevantChunks returns at most topK chunks; each has an
\* embedding, is of the category asked for (when one is), and has a
\* similarity of at least minScore; they come in descending similarity, equal
\* similarities in the order of the knowledge base; and a chunk that passes
\* the filters and is not returned has no higher similarity than a returned
\* one.
C26_TopKAboveThreshold ==
    (call.fn = "findRelevantChunks" /\ call.out # Null) =>
       LET out == call.out[1]
           sim(x) == cosineSimilarity(Some(call.queryEmbedding), x.embedding)
           ids == {out[i].id : i \in 1..Len(out)}
       IN  /\ Len(out) <= call.topK
           /\ \A i \in 1..Len(out) :
                 /\ out[i].id \in 1..Len(call.kb)
                 /\ out[i].embedding = call.kb[out[i].id].embedding
                 /\ out[i].category = call.kb[out[i].id].category
                 /\ out[i].embedding # Null
                 /\ call.category # None => out[i].category = call.category
                 /\ out[i].similarity = sim(out[i])
                 /\ NumGE(out[i].similarity, call.minScore)
           /\ \A i, j \in 1..Len(out) :
                 i < j =>
                    /\ NumGE(out[i].similarity, out[j].similarity)
                    /\ NumGE(out[j].similarity, out[i].similarity)
                          => out[i].id < out[j].id
           /\ \A x \in Eligible(call) :
                 x.id \notin ids =>
                    /\ Len(out) = call.topK
                    /\ \A i \in 1..Len(out) : NumGE(out[i].similarity, sim(x))

\* a call that returned topK chunks of equal similarity and left out a chunk
\* that passes the filters, while another chunk fails the threshold
C26_Witness ==
    /\ call.fn = "findRelevantChunks"
    /\ call.out # Null
    /\ Len(call.out[1]) = call.topK
    /\ call.topK = 2
    /\ call.out[1][1].similarity = call.out[1][2].similarity
    /\ Cardinality(Eligible(call)) > call.topK
    /\ call.minScore # Zero

\* C28: keywordSearch returns at most topK chunks in descending score, the
\* score being (contentMatches + 2 * titleMatches + 1.5 * keywordMatches)
\* over the number of query words; no returned chunk has score 0; for the
\* query of the call, a chunk that at least the same number of query words
\* match in content, title and keyword list as another chunk has no lower
\* score; and the call returns, with no chunk, also when no query word is
\* longer than 2 characters.
C28_KeywordRanking ==
    (call.fn = "keywordSearch") =>
       LET words == queryWords(call.query)
           n == Len(words)
           c(i) == contentMatches(call.chunks[i], words)
           t(i) == titleMatches(call.chunks[i], words)
           k(i) == keywordMatches(call.chunks[i], words)
           twice(i) == 2 * c(i) + 4 * t(i) + 3 * k(i)
       IN  /\ \A i, j \in 1..Len(call.chunks) :
                 (n > 0 /\ c(i) >= c(j) /\ t(i) >= t(j) /\ k(i) >= k(j))
                    => RatioGE(matchScore(call.chunks[i], words),
                               matchScore(call.chunks[j], words))
           /\ call.out # Null =>
                LET out == call.out[1]
                    ids == {out[i].id : i \in 1..Len(out)}
                IN  /\ Len(out) <= call.topK
                    /\ n = 0 => out = <<>>
                    /\ \A i \in 1..Len(out) :
                          /\ out[i].id \in 1..Len(call.chunks)
                          /\ out[i].matchScore.kind = "num"
                          /\ out[i].matchScore.num * 2 * n
                                = twice(out[i].id) * out[i].matchScore.den
                          /\ out[i].matchScore.num > 0
                    /\ \A i, j \in 1..Len(out) :
                          i < j => /\ out[i].id # out[j].id
                                   /\ twice(out[i].id) >= twice(out[j].id)
                    /\ \A x \in 1..Len(call.chunks) :
                          (x \notin ids /\ twice(x) > 0) =>
                             /\ Len(out) = call.topK
                             /\ \A i \in 1..Len(out) :
                                   twice(out[i].id) >= twice(x)

\* a call with two query words that returned topK chunks of different
\* scores, left out a chunk with a lower score and dropped a chunk no query
\* word matches
C28_Witness ==
    /\ call.fn = "keywordSearch"
    /\ call.out # Null
    /\ Len(queryWords(call.query)) = 2
    /\ call.topK = 2
    /\ Len(call.out[1]) = 2
    /\ call.out[1][1].matchScore # call.out[1][2].matchScore
    /\ \E x \in 1..Len(call.chunks) :
          /\ Positive(matchScore(call.chunks[x], queryWords(call.query)))
          /\ \A i \in 1..2 : call.out[1][i].id # x

\* the course mentions of a message, and of a sequence of prior messages, in
\* the order they were written
Mentions(text) == SelectSeq(text, LAMBDA k : k.kind = "course")
RECURSIVE MentionsOf(_)
MentionsOf(msgs) ==
    IF msgs = <<>> THEN <<>>
    ELSE Mentions(Head(msgs).content) \o MentionsOf(Tail(msgs))

\* the last n prior messages
LastMessages(hist, n) ==
    SubSeq(hist, IF Len(hist) > n THEN Len(hist) - n + 1 ELSE 1, Len(hist))

\* the mentions without a second mention of the same course
RECURSIVE DistinctCourses(_)
DistinctCourses(ms) ==
    IF ms = <<>> THEN <<>>
    ELSE LET front == DistinctCourses(SubSeq(ms, 1, Len(ms) - 1))
         IN  IF \E i \in 1..Len(front) : front[i].num = ms[Len(ms)].num
             THEN front ELSE Append(front, ms[Len(ms)])

\* C29: for a message with a singular-referring word and prior conversation,
\* the search query is the most recently mentioned course, then the message:
\* the last course of the message itself when it names one, otherwise the
\* last course mentioned in the last 2 prior messages, a repeated course
\* counting where it was last mentioned.
C29_SingularMostRecent ==
    (/\ call.fn = "searchQuery"
     /\ call.out # Null
     /\ isSingularRef(call.message)
     /\ Len(call.conversationHistory) > 0) =>
       LET own == Mentions(call.message)
           prior == MentionsOf(LastMessages(call.conversationHistory, 2))
           latest == IF own # <<>> THEN own[Len(own)] ELSE prior[Len(prior)]
       IN  (own \o prior # <<>>)
              => call.out[1] = <<latest.text>> \o TextOf(call.message)

\* C30: for a message with a plural-referring word and prior conversation,
\* the search query is every distinct course mentioned in the message and in
\* the last 4 prior messages, once each, in order of first encounter, then
\* the message; older messages contribute nothing.
C30_PluralAllDistinct ==
    (/\ call.fn = "searchQuery"
     /\ call.out # Null
     /\ isPlural(call.message)
     /\ Len(call.conversationHistory) > 0) =>
       LET found == DistinctCourses(
                       Mentions(call.message)
                          \o MentionsOf(LastMessages(call.conversationHistory, 4)))
       IN  call.out[1] = TextOf(found) \o TextOf(call.message)

---------------------------------------------------------------------------
(* Properties of the browser client (specification SpecClient)             *)

\* C13: once the signal of a run has fired, no further request of that run
\* is sent over the network: the list of the requests it has sent stays as
\* it was when the signal fired, so the fallback endpoint is not called
\* after a cancelled RAG call.
C13_NoCallAfterAbort ==
    [][\A x \in SendIds :
          (sends[x].aborted /\ sends'[x].aborted) =>
              sends'[x].net = sends[x].net
      ]_vars

\* a run cancelled while its RAG call was in flight has ended, the failure of
\* the RAG call is counted and the only request sent is the one to the RAG
\* endpoint
C13_Witness ==
    \E x \in SendIds : /\ sends[x].pc = "done"
                       /\ sends[x].aborted
                       /\ sends[x].outcome = "cancelled"
                       /\ sends[x].net = <<RAG_API>>
                       /\ router.ragFailures >= 1

\* C14: once the signal of a run has fired, the run writes no chat-history
\* entry, and the RAG route writes no cache entry for its request.
C14_CancelledWritesNothing ==
    [][\A x \in SendIds :
          (sends[x].aborted /\ sends'[x].aborted) =>
              /\ sends'[x].entries = sends[x].entries
              /\ ~sends'[x].lateStore
      ]_vars

---------------------------------------------------------------------------
(* Properties of retryWithBackoff (specification SpecRetry)                *)

Success == {"text", "nohave"}

\* what holds of a run of retryWithBackoff at every moment
RetryShape ==
    LET n == Len(retry.calls) IN
    /\ n <= 3
    /\ Len(retry.waits) <= 2
    /\ \A k \in 1..Len(retry.waits) :
          /\ retry.waits[k] = (IF k = 1 THEN 1 ELSE 2) * MsPerSec
          /\ retry.calls[k].out = "transient"
          /\ k < n => retry.calls[k + 1].at >= retry.calls[k].at + retry.waits[k]
    /\ \A k \in 1..(n - 1) : retry.calls[k].out = "transient"
    /\ retry.pc \in {"calling", "waiting"} =>
          /\ Len(retry.waits) = n
          /\ retry.result = 0
    /\ retry.pc = "returned" =>
          /\ retry.result = n
          /\ retry.calls[n].out \in Success
          /\ Len(retry.waits) = n - 1
    /\ retry.pc = "thrown" =>
          /\ retry.result = n
          /\ retry.calls[n].out \notin Success
          /\ Len(retry.waits) = n - 1
          /\ retry.calls[n].out = "transient" => n = 3

C23_RouterCooldown ==
    [][\A x \in SendIds :
          /\ (sends[x].pc \in {"idle", "done"} /\ sends'[x].pc = "fetch") =>
                sends'[x].net =
                   IF /\ router.ragFailures >= 3
                      /\ now - router.lastRagFailure < COOLDOWN_PERIOD
                   THEN <<FALLBACK_API>>
                   ELSE <<RAG_API>>
          /\ (sends'[x].net # <<>> /\ sends'[x].net[1] = FALLBACK_API) =>
                sends'[x].net = <<FALLBACK_API>>
      ]_vars

\* a run started during the cooldown is waiting for the fallback endpoint
C23_Witness ==
    \E x \in SendIds : /\ sends[x].pc = "fetch"
                       /\ sends[x].net = <<FALLBACK_API>>
                       /\ router.ragFailures >= MAX_FAILURES
                       /\ now - router.lastRagFailure < COOLDOWN_PERIOD

\* what a step does to the call of run x that is in flight
Awaiting(q, endpoint) == q.pc \in {"fetch", "body"} /\ q.endpoint = endpoint
RagSucceeds(x) == Awaiting(sends[x], RAG_API) /\ sends'[x].pc = "reveal"
RagFails(x) ==
    /\ Awaiting(sends[x], RAG_API)
    /\ ~Awaiting(sends'[x], RAG_API)
    /\ sends'[x].pc # "reveal"
FallbackFails(x) == Awaiting(sends[x], FALLBACK_API) /\ sends'[x].pc = "done"

\* number of requests to the fallback endpoint in a list of requests
FallbackCalls(net) == Len(SelectSeq(net, LAMBDA e : e = FALLBACK_API))

\* C35: ragFailures and lastRagFailure change only in three ways. A RAG call
\* that succeeds, and resetAPIFailures, set them to 0 and to no time. A RAG
\* call that fails adds exactly 1 and stamps the time; the run then goes to
\* the fallback endpoint, once (when its signal has fired the fallback fetch
\* rejects at once and the run ends cancelled), and a failure of the fallback
\* call ends the run with that error and leaves the counter alone. Time
\* passing, the end of a cooldown included, changes nothing, so a RAG failure
\* when MAX_FAILURES are on record puts the router into cooldown at once.
C35_FailureCounter ==
    [][/\ router' # router =>
             \/ /\ router' = NoFailures
                /\ sends' = sends \/ \E x \in SendIds : RagSucceeds(x)
             \/ /\ router' = [ragFailures |-> router.ragFailures + 1,
                               lastRagFailure |-> now]
                /\ \E x \in SendIds : RagFails(x)
       /\ now' # now => router' = router
       /\ \A x \in SendIds :
             /\ RagSucceeds(x) => router' = NoFailures
             /\ RagFails(x) =>
                   /\ router'.ragFailures = router.ragFailures + 1
                   /\ router'.lastRagFailure = now
                   /\ router.ragFailures + 1 >= MAX_FAILURES
                         => inCooldown(router', now)
                   /\ IF sends[x].aborted
                      THEN /\ sends'[x].pc = "done"
                           /\ sends'[x].outcome = "cancelled"
                           /\ sends'[x].net = sends[x].net
                      ELSE /\ Awaiting(sends'[x], FALLBACK_API)
                           /\ sends'[x].net = Append(sends[x].net, FALLBACK_API)
             /\ FallbackFails(x) =>
                   /\ sends'[x].outcome \in {"error", "cancelled"}
                   /\ sends'[x].net = sends[x].net
                   /\ router' = router
             /\ FallbackCalls(sends'[x].net) <= 1
      ]_vars

\* a RAG call made after the cooldown had ended failed: MAX_FAILURES + 1
\* failures are on record and the router is in cooldown again
C35_Witness ==
    /\ router.ragFailures = MAX_FAILURES + 1
    /\ router.lastRagFailure >= StartTime + COOLDOWN_PERIOD
    /\ inCooldown(router, now)
    /\ \E x \in SendIds : /\ Awaiting(sends[x], FALLBACK_API)
                           /\ sends[x].net = <<RAG_API, FALLBACK_API>>


\* C37: while a request that was not cancelled is in flight, isLoading is
\* true and abortController is the controller of that request, also after
\* the handler of an earlier, aborted request has completed.
C37_InFlightKeepsLoadingAndController ==
    \A x \in SendIds :
        (sends[x].pc \in {"fetch", "body"} /\ ~sends[x].aborted) =>
            /\ ui.isLoading
            /\ ui.abortController = x


---------------------------------------------------------------------------
(* Properties of the client when no endpoint fails (specification          *)
(* SpecCancel)                                                             *)

\* C36: a RAG call that ends because the signal of its run fired is counted
\* as a RAG failure: ragFailures goes up by 1 and lastRagFailure is stamped,
\* and when that makes MAX_FAILURES the router is in cooldown, although every
\* failure on record is a cancellation.
C36_CancelCountsAsFailure ==
    [][/\ \A x \in Runs :
             (Awaiting(sends[x], RAG_API) /\ sends[x].aborted
                /\ sends'[x].pc = "done") =>
                /\ sends'[x].outcome = "cancelled"
                /\ router'.ragFailures = router.ragFailures + 1
                /\ router'.lastRagFailure = now
                /\ router.ragFailures + 1 >= MAX_FAILURES
                      => inCooldown(router', now)
       /\ router'.ragFailures > router.ragFailures =>
             \E x \in Runs : /\ Awaiting(sends[x], RAG_API)
                             /\ sends[x].aborted
                             /\ sends'[x].outcome = "cancelled"
      ]_vars

\* after three cancelled RAG calls the router is in cooldown and the next
\* message goes to the fallback endpoint
C36_Witness ==
    /\ router.ragFailures = MAX_FAILURES
    /\ inCooldown(router, now)
    /\ \E x \in Runs : /\ sends[x].pc = "fetch"
                        /\ sends[x].net = <<FALLBACK_API>>


---------------------------------------------------------------------------
(* Properties of concurrent invocations (specification SpecConcurrent)     *)

InTiers(q) == q.pc \in {"t1search", "t1model", "t2model", "t3model"}

\* C31: with two invocations of the tiered endpoint interleaving at their
\* awaits, the throttle check, the quota check and recordRequest of a request
\* are one step: the step that takes a request out of parsing into tier 1
\* leaves the state that recordRequest gives on the state the checks saw, and
\* moves no other request; requestsToday never exceeds RPD, and two accepted
\* requests are recorded at least MIN_REQUEST_INTERVAL apart.
C31_GuardIsAtomic ==
    [][/\ state'.requestsToday <= RPD
       /\ \A i, j \in 1..Len(accepted') :
             i < j => accepted'[j] - accepted'[i] >= MIN_REQUEST_INTERVAL
       /\ \A r \in Handlers :
             (req[r].pc = "parsing" /\ req'[r].pc = "t1search") =>
                /\ ~shouldThrottle(state, now).throttled
                /\ LET c == canMakeRequest(state, Disk(stateFile, inMemoryState),
                                           now, fsUp)
                   IN  /\ c.result.allowed
                       /\ state' = RecordedState(c.state, now)
                /\ state'.lastRequestTime = now
                /\ accepted' = Append(accepted, now)
                /\ \A x \in Handlers \ {r} :
                      req'[x] = req[x] \/ (req[x].pc = "done" /\ req'[x] = IdleReq)
      ]_vars

\* two accepted requests are in their tiers at the same time, the second
\* one accepted while the first was waiting for a model
C31_Witness ==
    /\ InTiers(req[1])
    /\ InTiers(req[2])
    /\ Len(accepted) >= 2
    /\ state.requestsToday >= 2


---------------------------------------------------------------------------
(* Properties of the guard's functions called in any order (SpecCalls)     *)

\* C32: from the default state, after any sequence of canMakeRequest,
\* recordRequest, shouldThrottle and getUsageStats calls, requestsThisMinute
\* is the length of requestTimestamps and requestsToday <= totalRequests; no
\* call lowers totalRequests.
C32_CountersConsistent ==
    [][/\ state'.requestsThisMinute = Len(state'.requestTimestamps)
       /\ state'.requestsToday <= state'.totalRequests
       /\ state'.totalRequests >= state.totalRequests
      ]_vars

\* requests recorded without a check before them, on two days: the daily
\* counter was reset and counts again, below the lifetime total
C32_Witness ==
    /\ state.totalRequests > RPD
    /\ state.requestsToday >= 1
    /\ state.requestsToday < state.totalRequests
    /\ Len(state.requestTimestamps) >= 1


---------------------------------------------------------------------------
(* Properties of the retry hints of the guard (specification SpecHints)    *)

\* the kept denial is over: its hint has elapsed and no request was recorded
\* since
HintElapsed(fn) ==
    /\ call.fn = fn
    /\ call.total = state.totalRequests
    /\ now >= call.at + call.hint * MsPerSec

---------------------------------------------------------------------------
(* Properties of the stored responses of the RAG endpoint (specification   *)
(* SpecRag)                                                                *)

\* the bodies whose message has the same cache key as that of request q
SameKeyBodies(q) ==
    {b \in RagBodies : b.kind = "string"
                          /\ getCacheKey(b.text) = getCacheKey(q.body.text)}

\* C38: while the entry of a key is younger than the TTL, a request whose
\* message has that key is answered with the stored response, and so would
\* be a request with any other message of the same key and any other
\* conversationHistory, also one for which the message would be expanded with
\* a course of the history; nothing but the cache is read for it.
C38_AnswerDependsOnKeyOnly ==
    [][\A r \in RagReq :
         (/\ rag[r].pc = "parsing"
          /\ rag'[r].pc # "parsing"
          /\ rag[r].body.kind = "string"
          /\ cache[getCacheKey(rag[r].body.text)] # Null
          /\ CacheFresh(cache[getCacheKey(rag[r].body.text)][1], now)) =>
            LET entry == cache[getCacheKey(rag[r].body.text)][1]
            IN  /\ rag'[r].pc = "done"
                /\ rag'[r].log = <<"cacheGet">>
                /\ rag'[r].resp = RagCachedResp(entry)
                /\ cache' = cache
                /\ \A b \in SameKeyBodies(rag[r]) :
                      HandleRagStart([rag[r] EXCEPT !.body = b], cache, now).resp
                          = rag'[r].resp
      ]_vars

\* a request whose message would have been expanded with a course of its
\* history was answered with a response stored for another search query
C38_Witness ==
    \E r \in RagReq :
        /\ rag[r].pc = "done"
        /\ rag[r].resp.cached = "true"
        /\ cache[rag[r].key] # Null
        /\ expandQuery(rag[r].body.text, rag[r].body.hist) # rag[r].body.text
        /\ cache[rag[r].key][1].query
              # expandQuery(rag[r].body.text, rag[r].body.hist)
        /\ rag[r].resp.response = cache[rag[r].key][1].data.response


\* the Keyword Ranker ran for the request with log l
KeywordRankerRan(l) == \E i \in 1..Len(l) : l[i] = "keywordSearch"

\* C39: a computed answer reports searchMethod 'keyword' exactly when the
\* embedding call failed and the Keyword Ranker ran, and 'vector' otherwise,
\* also when the similarity search succeeded and returned no chunk.
C39_SearchMethodNamesRanker ==
    \A r \in RagReq :
        (/\ rag[r].pc = "done"
         /\ rag[r].resp.body = "answer"
         /\ rag[r].resp.cached = "false") =>
            rag[r].resp.searchMethod
                = IF KeywordRankerRan(rag[r].log) THEN "keyword" ELSE "vector"

===========================================================================
